---- MODULE Spec2Model ----
(***************************************************************************)
(* Model of the interface-service menu engine of dB-Sentry:                *)
(*   interface/menu.py          Menu (frame pre-rendering cache)           *)
(*   interface/oled_display.py  OledDisplay (scroll window, cursor line)   *)
(*   interface/dynamic_menu.py  DynamicMenu (navigation, edit sessions,    *)
(*                              refresh loop, sleep, AP scan worker)       *)
(* Handlers are written as functions from a state record to a state record *)
(* so that a handler that calls another handler is their composition; the  *)
(* actions at the end apply one whole handler to the variables.            *)
(***************************************************************************)
EXTENDS Integers, Sequences, FiniteSets, TLC

VARIABLES
    config,             \* DynamicMenu.config["menus"]: menu name -> item list
    boot_screen_active, \* DynamicMenu.boot_screen_active
    menu_stack,         \* DynamicMenu.menu_stack
    current_menu_name,  \* DynamicMenu.current_menu_name
    edit_mode,          \* DynamicMenu.edit_mode
    edit_value,         \* DynamicMenu.edit_value
    edit_value_float,   \* DynamicMenu.edit_value_float, in units of 1/HueDen
    edit_config,        \* DynamicMenu.edit_config
    editing_sensor,     \* DynamicMenu.editing_sensor ("" is None)
    showing_rainbow,    \* DynamicMenu.showing_rainbow
    display_sleeping,   \* DynamicMenu.display_sleeping
    last_activity,      \* DynamicMenu.last_activity
    dynamic_values,     \* DynamicMenu.dynamic_values
    refresh_timers,     \* DynamicMenu.refresh_timers
    sensor_limits,      \* DynamicMenu.sensor_limits
    last_sensor_list,   \* DynamicMenu.last_sensor_list
    sensor_details_cache, \* DynamicMenu.sensor_details_cache
    scanning_aps,       \* DynamicMenu.scanning_aps
    scanned_aps,        \* DynamicMenu.scanned_aps
    scan_workers,       \* number of _do_ap_scan threads in flight
    scan_latest,        \* the thread started by the latest entry is in flight
    current_menu,       \* OledDisplay.current_menu
    scroll_index,       \* OledDisplay.scroll_index
    cursor_position,    \* OledDisplay.cursor_position
    contrast,           \* contrast last sent to the SSD1306
    rotation,           \* OledDisplay.rotation
    shown,              \* image last sent to the SSD1306
    settings,           \* user_settings.settings
    settings_file,      \* contents of user_settings.json
    disk_ok,            \* writing user_settings.json succeeds
    pc,                 \* where each thread stands inside its handler
    lock,               \* the thread that holds refresh_lock, or "none"
    actor,              \* the thread that took the last step
    led,                \* LED strip: brightness and what it shows
    now,                \* time.time(), whole seconds
    api_available,      \* limit-service reachable
    api_sensors         \* limit-service: list of active sensors

vars == << config, boot_screen_active, menu_stack, current_menu_name, edit_mode,
           edit_value, edit_value_float, edit_config, editing_sensor,
           showing_rainbow, display_sleeping, last_activity, dynamic_values,
           refresh_timers, sensor_limits, last_sensor_list,
           sensor_details_cache, scanning_aps, scanned_aps, scan_workers,
           scan_latest,
           current_menu, scroll_index, cursor_position, contrast, rotation,
           shown,
           settings, settings_file, disk_ok, pc, lock, actor, led, now,
           api_available, api_sensors >>

-----------------------------------------------------------------------------
(* Bounds of the model *)

MaxItems == 3          \* longest item list given to Menu in MenuSpec
MaxTime == 161         \* the clock stops advancing here
MaxEditDrift == 1      \* Spec: edits stay this many detents from min, max or a seed
MaxPresses == 4        \* longest run of CursorDown events tried on a menu
MaxRotations == 2      \* longest run of rotation deltas tried on a session
MaxScanWorkers == 1    \* scan threads in flight at the same time
MaxElapsed == 6         \* RefreshSpec: seconds the clock runs after the start

\* time.time() when the program starts (later than any interval it measures)
StartTime == 100

(* Program constants *)

INACTIVITY_TIMEOUT == 60
BarWidth == 110
ThresholdMin == 0
ThresholdMax == 150
DefaultDisplayBrightness == 180
DefaultLedBrightness == 255

Max(a, b) == IF a > b THEN a ELSE b
Min(a, b) == IF a < b THEN a ELSE b

\* refresh: "on_navigate" is encoded as -1; a number is an interval in seconds
OnNavigate == -1

-----------------------------------------------------------------------------
(* Menu items (entries of the menu definition) *)

\* an item dict; the values are what item.get(key, default) returns
BaseItem ==
    [type |-> "static", text |-> "", function |-> "", submenu |-> "",
     min |-> 0, max |-> 255, refresh |-> OnNavigate, sensor |-> "",
     group |-> "", value |-> "", alert_type |-> "normal", right_text |-> ""]

NoItem == [BaseItem EXCEPT !.type = "none"]

StaticItem(text) == [BaseItem EXCEPT !.text = text]
BackItem(text) == [BaseItem EXCEPT !.type = "back", !.text = text]
SubmenuItem(text, target) ==
    [BaseItem EXCEPT !.type = "submenu", !.text = text, !.submenu = target]
DynamicItem(text, function, refresh) ==
    [BaseItem EXCEPT !.type = "dynamic", !.text = text, !.function = function,
                     !.refresh = refresh]
EditItem(type, text, function, min, max) ==
    [BaseItem EXCEPT !.type = type, !.text = text, !.function = function,
                     !.min = min, !.max = max]
HueItem(text, function, alert_type) ==
    [BaseItem EXCEPT !.type = "hue_bar", !.text = text, !.function = function,
                     !.min = 0, !.max = 1, !.alert_type = alert_type]
CheckboxItem(text, function, group, value) ==
    [BaseItem EXCEPT !.type = "checkbox", !.text = text, !.function = function,
                     !.group = group, !.value = value]

(* Display text: template, substituted value, bracketed or not *)
Text(t, v, b) == [t |-> t, v |-> v, b |-> b]
BlankText == Text("", "", FALSE)

(* What _format_menu_text returns *)
MenuText(text, submenu, right_text) ==
    [text |-> text, submenu |-> submenu, right_text |-> right_text]
BlankMenuText == MenuText(BlankText, FALSE, BlankText)

-----------------------------------------------------------------------------
(* interface/menu.py *)

Row(raw, i) == raw[i + 1]     \* Python index i of the padded list

\* Menu._prerender_frames: one frame per scroll_index in range(len(items) - 2)
PrerenderFramesOffByOne(raw) ==
    [s \in 0 .. (Len(raw) - 2) |->
        [kind |-> "menu",
         line1 |-> IF s < Len(raw) THEN Row(raw, s) ELSE BlankMenuText,
         line2 |-> IF s + 1 < Len(raw) THEN Row(raw, s + 1) ELSE BlankMenuText,
         line3 |-> IF s + 2 < Len(raw) THEN Row(raw, s + 2) ELSE BlankMenuText]]

PrerenderFrames(raw) ==
    [s \in 0 .. (Len(raw) - 3) |->
        [kind |-> "menu",
         line1 |-> IF s < Len(raw) THEN Row(raw, s) ELSE BlankMenuText,
         line2 |-> IF s + 1 < Len(raw) THEN Row(raw, s + 1) ELSE BlankMenuText,
         line3 |-> IF s + 2 < Len(raw) THEN Row(raw, s + 2) ELSE BlankMenuText]]

\* Menu.__init__: pad with one blank item at each end, pre-render all frames
Menu(items) ==
    LET raw == <<BlankMenuText>> \o items \o <<BlankMenuText>>
    IN  [raw_items |-> raw, frame_cache |-> PrerenderFrames(raw)]

NoMenu == [raw_items |-> <<>>, frame_cache |-> <<>>]

\* Menu.__len__
MenuLen(menu) == Len(menu.raw_items)

\* number of real (unpadded) items
RealCount(menu) == IF menu = NoMenu THEN 0 ELSE MenuLen(menu) - 2

NoFrame == [kind |-> "none"]

\* Menu.get_frame: clamp scroll_index to 0 .. len - 3, then look the frame up
GetFrame(menu, index) ==
    LET max_index == Max(MenuLen(menu) - 3, 0)
        clamped_index == Max(0, Min(index, max_index))
    IN  IF clamped_index \in DOMAIN menu.frame_cache
        THEN menu.frame_cache[clamped_index]
        ELSE NoFrame

\* Menu.get_item
GetItem(menu, index) ==
    IF 0 <= index /\ index < MenuLen(menu) THEN Row(menu.raw_items, index).text
    ELSE BlankText

-----------------------------------------------------------------------------
(* The program state as one record, and its application to the variables *)

S ==
    [config |-> config, boot_screen_active |-> boot_screen_active,
     menu_stack |-> menu_stack, current_menu_name |-> current_menu_name,
     edit_mode |-> edit_mode, edit_value |-> edit_value,
     edit_value_float |-> edit_value_float, edit_config |-> edit_config,
     editing_sensor |-> editing_sensor, showing_rainbow |-> showing_rainbow,
     display_sleeping |-> display_sleeping, last_activity |-> last_activity,
     dynamic_values |-> dynamic_values, refresh_timers |-> refresh_timers,
     sensor_limits |-> sensor_limits, last_sensor_list |-> last_sensor_list,
     sensor_details_cache |-> sensor_details_cache,
     scanning_aps |-> scanning_aps, scanned_aps |-> scanned_aps,
     scan_workers |-> scan_workers, scan_latest |-> scan_latest,
     current_menu |-> current_menu,
     scroll_index |-> scroll_index, cursor_position |-> cursor_position,
     contrast |-> contrast, rotation |-> rotation, shown |-> shown,
     settings |-> settings, settings_file |-> settings_file,
     disk_ok |-> disk_ok, pc |-> pc, lock |-> lock, actor |-> actor,
     led |-> led, now |-> now, api_available |-> api_available,
     api_sensors |-> api_sensors]

Apply(t) ==
    /\ config' = t.config
    /\ boot_screen_active' = t.boot_screen_active
    /\ menu_stack' = t.menu_stack
    /\ current_menu_name' = t.current_menu_name
    /\ edit_mode' = t.edit_mode
    /\ edit_value' = t.edit_value
    /\ edit_value_float' = t.edit_value_float
    /\ edit_config' = t.edit_config
    /\ editing_sensor' = t.editing_sensor
    /\ showing_rainbow' = t.showing_rainbow
    /\ display_sleeping' = t.display_sleeping
    /\ last_activity' = t.last_activity
    /\ dynamic_values' = t.dynamic_values
    /\ refresh_timers' = t.refresh_timers
    /\ sensor_limits' = t.sensor_limits
    /\ last_sensor_list' = t.last_sensor_list
    /\ sensor_details_cache' = t.sensor_details_cache
    /\ scanning_aps' = t.scanning_aps
    /\ scanned_aps' = t.scanned_aps
    /\ scan_workers' = t.scan_workers
    /\ scan_latest' = t.scan_latest
    /\ current_menu' = t.current_menu
    /\ scroll_index' = t.scroll_index
    /\ cursor_position' = t.cursor_position
    /\ contrast' = t.contrast
    /\ rotation' = t.rotation
    /\ shown' = t.shown
    /\ settings' = t.settings
    /\ settings_file' = t.settings_file
    /\ disk_ok' = t.disk_ok
    /\ pc' = t.pc
    /\ lock' = t.lock
    /\ actor' = t.actor
    /\ led' = t.led
    /\ now' = t.now
    /\ api_available' = t.api_available
    /\ api_sensors' = t.api_sensors

Is(t) ==
    /\ config = t.config
    /\ boot_screen_active = t.boot_screen_active
    /\ menu_stack = t.menu_stack
    /\ current_menu_name = t.current_menu_name
    /\ edit_mode = t.edit_mode
    /\ edit_value = t.edit_value
    /\ edit_value_float = t.edit_value_float
    /\ edit_config = t.edit_config
    /\ editing_sensor = t.editing_sensor
    /\ showing_rainbow = t.showing_rainbow
    /\ display_sleeping = t.display_sleeping
    /\ last_activity = t.last_activity
    /\ dynamic_values = t.dynamic_values
    /\ refresh_timers = t.refresh_timers
    /\ sensor_limits = t.sensor_limits
    /\ last_sensor_list = t.last_sensor_list
    /\ sensor_details_cache = t.sensor_details_cache
    /\ scanning_aps = t.scanning_aps
    /\ scanned_aps = t.scanned_aps
    /\ scan_workers = t.scan_workers
    /\ scan_latest = t.scan_latest
    /\ current_menu = t.current_menu
    /\ scroll_index = t.scroll_index
    /\ cursor_position = t.cursor_position
    /\ contrast = t.contrast
    /\ rotation = t.rotation
    /\ shown = t.shown
    /\ settings = t.settings
    /\ settings_file = t.settings_file
    /\ disk_ok = t.disk_ok
    /\ pc = t.pc
    /\ lock = t.lock
    /\ actor = t.actor
    /\ led = t.led
    /\ now = t.now
    /\ api_available = t.api_available
    /\ api_sensors = t.api_sensors

\* dict.get(key, default) and dict[key] = value on a function used as a dict
Get(d, k, default) == IF k \in DOMAIN d THEN d[k] ELSE default
Put(d, k, v) == [x \in (DOMAIN d) \cup {k} |-> IF x = k THEN v ELSE d[x]]
EmptyDict == [x \in {} |-> 0]

-----------------------------------------------------------------------------
(* interface/oled_display.py *)

\* OledDisplay.show_lines
ShowLines(line1, line2) == [kind |-> "lines", line1 |-> line1, line2 |-> line2]

\* OledDisplay._display_current_menu
DisplayCurrentMenu(s) ==
    IF s.current_menu = NoMenu THEN s
    ELSE LET frame == GetFrame(s.current_menu, s.scroll_index)
         IN  IF frame # NoFrame
             THEN [s EXCEPT !.shown = frame]
             ELSE [s EXCEPT !.shown =
                      ShowLines(GetItem(s.current_menu, s.scroll_index),
                                GetItem(s.current_menu, s.scroll_index + 1))]

\* OledDisplay.get_selected_item_index
GetSelectedItemIndex(s) == s.scroll_index + s.cursor_position

\* OledDisplay.move_cursor_down
DisplayMoveCursorDown(s) ==
    IF s.current_menu = NoMenu THEN s
    ELSE IF s.cursor_position = 0
              /\ MenuLen(s.current_menu) > s.scroll_index + 1
         THEN DisplayCurrentMenu([s EXCEPT !.cursor_position = 1])
         ELSE IF s.cursor_position = 1
                   /\ MenuLen(s.current_menu) > s.scroll_index + 2
              THEN DisplayCurrentMenu([s EXCEPT !.scroll_index = @ + 1])
              ELSE s

\* OledDisplay.move_cursor_up
DisplayMoveCursorUp(s) ==
    IF s.current_menu = NoMenu THEN s
    ELSE IF s.cursor_position = 1
         THEN DisplayCurrentMenu([s EXCEPT !.cursor_position = 0])
         ELSE IF s.cursor_position = 0 /\ s.scroll_index > 0
              THEN DisplayCurrentMenu([s EXCEPT !.scroll_index = @ - 1])
              ELSE s

\* OledDisplay.clear
Cleared == [kind |-> "blank"]

\* OledDisplay.set_contrast (ValueError outside 0..255 is not modelled:
\* every caller passes a value in range)
SetContrast(s, c) == [s EXCEPT !.contrast = c]

-----------------------------------------------------------------------------
(* Names known to the menu definition and the collaborators *)

\* sensor names in lexicographic order (the order sorted() produces)
SensorOrder == <<"kitchen", "yard">>
Sensors == {SensorOrder[i] : i \in DOMAIN SensorOrder}

\* f"sensor_{sensor_name}" and removeprefix("sensor_")
SensorMenuName(sensor) == "sensor_" \o sensor
IsSensorMenu(name) == \E sn \in Sensors : name = SensorMenuName(sn)
SensorOfMenu(name) == CHOOSE sn \in Sensors : name = SensorMenuName(sn)

Range(seq) == {seq[i] : i \in DOMAIN seq}

\* the sensor names in the order get_sensors() reported them
Unsorted(list) == list

\* sorted(active_sensor_names)
Sorted(list) == SelectSeq(SensorOrder, LAMBDA x : x \in Range(list))

\* the {token} a text template contains ("" when it has none)
Token(text) ==
    CASE text = "SSID: {ssid}" -> "ssid"
      [] text = "IP: {ip}" -> "ip"
      [] text = "Sensors: {sensor_count}" -> "sensor_count"
      [] text = "Display: {display_brightness}" -> "display_brightness"
      [] text = "LED: {led_brightness}" -> "led_brightness"
      [] text = "{orientation_left_check} Knob left" -> "orientation_left_check"
      [] text = "{orientation_right_check} Knob right" -> "orientation_right_check"
      [] OTHER -> ""

\* "display_brightness" in func_name / "led_brightness" in func_name
FuncKind(func) ==
    CASE func = "set_display_brightness" -> "display_brightness"
      [] func = "set_led_brightness" -> "led_brightness"
      [] OTHER -> ""

\* functions of the registry that produce dynamic values
DynFuncs == {"get_wifi_ssid", "get_ip_address"}

-----------------------------------------------------------------------------
(* What the collaborators return during one handler *)

\* dyn: what each registry function returns, or Raises when it raises;
\* limit: the limit get_limits reports for every active sensor;
\* details_ok: get_sensor_details returned a record, with
\* measurements_per_second = mps; update_ok: update_limit
\* succeeded; scan: what _scan_aps returns; latest: the scan thread that
\* finishes is the one started by the latest entry of the scan menu
DefaultEnv ==
    [dyn |-> [f \in DynFuncs |-> "v1"], limit |-> 50, details_ok |-> TRUE,
     mps |-> 2, update_ok |-> TRUE, scan |-> <<>>, latest |-> TRUE]

-----------------------------------------------------------------------------
(* utils/user_settings.py *)

\* UserSettings.get_display_brightness / get_led_brightness
GetDisplayBrightness(s) == Get(s.settings, "display_brightness", DefaultDisplayBrightness)
GetLedBrightness(s) == Get(s.settings, "led_brightness", DefaultLedBrightness)

\* a set that keeps the old value in memory when the file cannot be written
SettingsSetRollback(s, key, value) ==
    IF s.disk_ok
    THEN [s EXCEPT !.settings = Put(@, key, value),
                   !.settings_file = Put(s.settings, key, value)]
    ELSE s

\* UserSettings.set with _save: the value is stored in memory, then the whole
\* dictionary is written to the file; a failed write is logged
SettingsSet(s, key, value) ==
    [s EXCEPT !.settings = Put(@, key, value),
              !.settings_file =
                  IF s.disk_ok THEN Put(s.settings, key, value) ELSE @]

\* UserSettings.set_display_brightness / set_led_brightness: clamp, store
SettingsSetBrightness(s, key, value) ==
    SettingsSet(s, key, Max(0, Min(255, value)))

\* UserSettings.get_alert_hue / set_alert_hue (in units of 1/HueDen)
HueKey(alert_type) == "alert_hue_" \o alert_type
GetAlertHue(s, alert_type) == Get(s.settings, HueKey(alert_type), 0)
SettingsSetAlertHue(s, alert_type, value) ==
    SettingsSet(s, HueKey(alert_type), value)

-----------------------------------------------------------------------------
(* interface/dynamic_menu.py: menu configuration *)

\* the outcome of a registry function that raises an exception
Raises == "<exception>"

\* _get_dynamic_value without its try/except: the exception reaches the caller
GetDynamicValueUncaught(func, e) ==
    IF func \in DOMAIN e.dyn THEN e.dyn[func] ELSE "Unknown"

\* DynamicMenu._get_dynamic_value
GetDynamicValue(func, e) ==
    IF func \in DOMAIN e.dyn
    THEN IF e.dyn[func] = Raises THEN "Error" ELSE e.dyn[func]
    ELSE "Unknown"

\* DynamicMenu._get_sensor_count
GetSensorCount(s) == Len(s.api_sensors)

\* DynamicMenu._create_sensor_menu_config
CreateSensorMenuConfig(s, sensor_name) ==
    LET mps == Get(s.sensor_details_cache, sensor_name, 0)
    IN  << StaticItem(sensor_name),
           StaticItem("Rate: " \o ToString(mps) \o " mps"),
           [BaseItem EXCEPT !.type = "threshold_bar", !.text = "Threshold",
                            !.sensor = sensor_name, !.min = ThresholdMin,
                            !.max = ThresholdMax],
           BackItem("Back") >>

\* _signal_bars of _create_scan_aps_menu_config
SignalBars(signal) ==
    IF signal >= 75 THEN "||||"
    ELSE IF signal >= 50 THEN "|||"
    ELSE IF signal >= 25 THEN "||"
    ELSE IF signal > 0 THEN "|"
    ELSE ""

\* DynamicMenu._create_scan_aps_menu_config
CreateScanApsMenuConfig(s) ==
    IF s.scanning_aps
    THEN << StaticItem("Scanning ..."), BackItem("Back") >>
    ELSE [i \in 1 .. Len(s.scanned_aps) |->
             [BaseItem EXCEPT !.text = s.scanned_aps[i][1],
                              !.right_text = SignalBars(s.scanned_aps[i][2])]]
         \o << BackItem("Back") >>

\* DynamicMenu._get_current_menu_config, .get("items", [])
\* (the "services" and "setup_mode_confirm" menus are not linked from the
\* menu definitions used here)
GetCurrentMenuItems(s) ==
    IF IsSensorMenu(s.current_menu_name)
    THEN CreateSensorMenuConfig(s, SensorOfMenu(s.current_menu_name))
    ELSE IF s.current_menu_name = "scan_aps"
    THEN CreateScanApsMenuConfig(s)
    ELSE Get(s.config, s.current_menu_name, <<>>)

\* the expansion loop shared by _refresh_current_menu and button_pressed:
\* a sensor_summary item is followed by one submenu row per active sensor
RECURSIVE ExpandItems(_, _)
ExpandItems(items, active) ==
    IF items = <<>> THEN <<>>
    ELSE LET item == Head(items)
             sorted == Sorted(active)
         IN  (IF item.type = "sensor_summary"
              THEN <<item>> \o
                   [i \in 1 .. Len(sorted) |->
                       SubmenuItem(sorted[i], SensorMenuName(sorted[i]))]
              ELSE <<item>>)
             \o ExpandItems(Tail(items), active)

HasSensorSummary(items) == \E i \in DOMAIN items : items[i].type = "sensor_summary"

\* limit_api.get_limits(): a limit for every active sensor
GetLimits(s, e) == [sn \in Range(s.api_sensors) |-> e.limit]

-----------------------------------------------------------------------------
(* interface/dynamic_menu.py: formatting *)

\* any open session brackets the value, whatever its target
AnySessionOpen(s, item) == s.edit_mode

\* self.edit_mode and self.edit_config.get("function") == func_name
SessionTargets(s, item) ==
    s.edit_mode /\ s.edit_config.function = item.function

\* DynamicMenu._format_menu_text (the text of the item)
FormatText(s, item, e) ==
    IF item.type \in {"dynamic", "dynamic_submenu"}
    THEN IF item.function # "" /\ Token(item.text) # ""
         THEN Text(item.text,
                   Get(s.dynamic_values, item.function,
                       GetDynamicValue(item.function, e)), FALSE)
         ELSE Text(item.text, "", FALSE)
    ELSE IF item.type = "checkbox"
    THEN IF item.group # "" /\ item.value # ""
            /\ Token(item.text) \in {"orientation_left_check", "orientation_right_check"}
         THEN Text(item.text,
                   IF Get(s.settings, item.group, "") = item.value
                   THEN "[x]" ELSE "[ ]", FALSE)
         ELSE Text(item.text, "", FALSE)
    ELSE IF item.type = "editable"
    THEN IF Token(item.text) = "display_brightness"
         THEN IF SessionTargets(s, item)
              THEN Text(item.text, ToString(s.edit_value), TRUE)
              ELSE Text(item.text, ToString(GetDisplayBrightness(s)), FALSE)
         ELSE IF Token(item.text) = "led_brightness"
         THEN IF SessionTargets(s, item)
              THEN Text(item.text, ToString(s.edit_value), TRUE)
              ELSE Text(item.text, ToString(GetLedBrightness(s)), FALSE)
         ELSE Text(item.text, "", FALSE)
    ELSE IF item.type = "sensor_summary"
    THEN IF Token(item.text) = "sensor_count"
         THEN Text(item.text, ToString(GetSensorCount(s)), FALSE)
         ELSE Text(item.text, "", FALSE)
    ELSE Text(item.text, "", FALSE)

\* DynamicMenu._format_menu_text (right text and submenu flag)
FormatMenuText(s, item, e) ==
    LET right ==
            IF item.right_text = "" THEN BlankText
            ELSE IF item.type \in {"dynamic", "dynamic_submenu"} /\ item.function # ""
            THEN Text(item.right_text,
                      Get(s.dynamic_values, item.function,
                          GetDynamicValue(item.function, e)), FALSE)
            ELSE Text(item.right_text, "", FALSE)
    IN  MenuText(FormatText(s, item, e),
                 item.type \in {"submenu", "dynamic_submenu", "threshold_bar",
                                "brightness_bar", "hue_bar", "editable"},
                 right)

-----------------------------------------------------------------------------
(* interface/dynamic_menu.py: rendering, sleep *)

DynamicFunctionsOf(items) ==
    {items[i].function :
        i \in {j \in DOMAIN items :
                  /\ items[j].type \in {"dynamic", "dynamic_submenu"}
                  /\ items[j].function # ""}}

\* dynamic_values[f] = _get_dynamic_value(f); refresh_timers[f] = time.time()
RecomputeDynamic(s, funcs, e) ==
    [s EXCEPT
        !.dynamic_values =
            [f \in (DOMAIN @) \cup funcs |->
                IF f \in funcs THEN GetDynamicValue(f, e) ELSE @[f]],
        !.refresh_timers =
            [f \in (DOMAIN @) \cup funcs |->
                IF f \in funcs THEN s.now ELSE @[f]]]

\* DynamicMenu._refresh_current_menu
RefreshCurrentMenu(s, preserve_position, e) ==
    IF s.display_sleeping THEN s
    ELSE
    LET items == GetCurrentMenuItems(s)
        summary == HasSensorSummary(items)
        active_sensor_names == s.api_sensors
        changed == summary /\ active_sensor_names # s.last_sensor_list
        saved_scroll ==
            IF ~preserve_position THEN 0
            ELSE IF s.current_menu_name = "main" /\ summary THEN 0
            ELSE IF changed THEN 0
            ELSE s.scroll_index
        s1 == IF summary
              THEN [s EXCEPT !.sensor_limits = GetLimits(s, e),
                             !.last_sensor_list =
                                 IF changed THEN active_sensor_names ELSE @]
              ELSE s
        expanded == ExpandItems(items, active_sensor_names)
        s2 == RecomputeDynamic(s1, DynamicFunctionsOf(expanded), e)
        menu_texts == [i \in DOMAIN expanded |-> FormatMenuText(s2, expanded[i], e)]
    IN  DisplayCurrentMenu(
            [s2 EXCEPT !.current_menu = Menu(menu_texts),
                       !.scroll_index = IF preserve_position THEN saved_scroll ELSE 0])

\* DynamicMenu._wake_display
WakeDisplay(s, e) ==
    LET s1 == [s EXCEPT !.last_activity = s.now]
    IN  IF s1.display_sleeping
        THEN RefreshCurrentMenu([s1 EXCEPT !.display_sleeping = FALSE], FALSE, e)
        ELSE s1

\* _check_sleep that leaves the display on while a session is open
CheckSleepUnlessEditing(s) ==
    IF s.now - s.last_activity > INACTIVITY_TIMEOUT /\ ~s.display_sleeping
       /\ ~s.edit_mode
    THEN [s EXCEPT !.display_sleeping = TRUE, !.shown = Cleared]
    ELSE s

\* DynamicMenu._check_sleep
CheckSleep(s) ==
    IF s.now - s.last_activity > INACTIVITY_TIMEOUT /\ ~s.display_sleeping
    THEN [s EXCEPT !.display_sleeping = TRUE, !.shown = Cleared]
    ELSE s

\* DynamicMenu._should_refresh_item
ShouldRefreshItem(s, item) ==
    IF item.refresh = OnNavigate THEN FALSE
    ELSE (s.now - Get(s.refresh_timers, item.function, 0)) >= item.refresh

\* DynamicMenu._show_boot_screen
BootScreen == [kind |-> "boot"]

-----------------------------------------------------------------------------
(* interface/dynamic_menu.py: cursor and navigation *)

\* move_cursor_down that re-renders the menu instead of looking the frame up
MoveCursorDownRerender(s, e) ==
    LET s1 == WakeDisplay(s, e)
    IN  IF s1.boot_screen_active \/ s1.edit_mode THEN s1
        ELSE RefreshCurrentMenu(DisplayMoveCursorDown(s1), TRUE, e)

\* DynamicMenu.move_cursor_down
MoveCursorDown(s, e) ==
    LET s1 == WakeDisplay(s, e)
    IN  IF s1.boot_screen_active \/ s1.edit_mode THEN s1
        ELSE DisplayMoveCursorDown(s1)

\* DynamicMenu.move_cursor_up
MoveCursorUp(s, e) ==
    LET s1 == WakeDisplay(s, e)
    IN  IF s1.boot_screen_active \/ s1.edit_mode THEN s1
        ELSE DisplayMoveCursorUp(s1)

\* _navigate_to that replaces the top of the stack instead of pushing
NavigateToReplaceTop(s, menu_name, e) ==
    RefreshCurrentMenu(
        [s EXCEPT !.menu_stack = [@ EXCEPT ![Len(@)] = menu_name],
                  !.current_menu_name = menu_name,
                  !.scroll_index = 0], FALSE, e)

\* DynamicMenu._navigate_to
NavigateTo(s, menu_name, e) ==
    LET s1 == [s EXCEPT !.menu_stack = Append(@, menu_name),
                        !.current_menu_name = menu_name,
                        !.scroll_index = 0]
        s2 == IF IsSensorMenu(menu_name) /\ e.details_ok
              THEN [s1 EXCEPT !.sensor_details_cache =
                                  Put(@, SensorOfMenu(menu_name), e.mps)]
              ELSE s1
    IN  IF menu_name = "scan_aps"
        THEN LET s3 == RefreshCurrentMenu(
                           [s2 EXCEPT !.scanning_aps = TRUE,
                                      !.scanned_aps = <<>>], FALSE, e)
             IN  [s3 EXCEPT !.scan_workers = @ + 1, !.scan_latest = TRUE]
        ELSE RefreshCurrentMenu(s2, FALSE, e)

\* _navigate_back without the depth test
NavigateBackUnguarded(s, e) ==
    LET stack == SubSeq(s.menu_stack, 1, Len(s.menu_stack) - 1)
    IN  RefreshCurrentMenu(
            [s EXCEPT !.menu_stack = stack,
                      !.current_menu_name =
                          IF stack = <<>> THEN "" ELSE stack[Len(stack)],
                      !.scroll_index = 0], FALSE, e)

\* DynamicMenu._navigate_back
NavigateBack(s, e) ==
    IF Len(s.menu_stack) > 1
    THEN LET stack == SubSeq(s.menu_stack, 1, Len(s.menu_stack) - 1)
         IN  RefreshCurrentMenu(
                 [s EXCEPT !.menu_stack = stack,
                           !.current_menu_name = stack[Len(stack)],
                           !.scroll_index = 0], FALSE, e)
    ELSE s

\* OledDisplay.set_rotation
SetRotation(s, degrees) == DisplayCurrentMenu([s EXCEPT !.rotation = degrees])

\* DynamicMenu._handle_checkbox with _set_orientation_left / _right
HandleCheckbox(s, item, e) ==
    IF item.function = "set_orientation_left"
    THEN RefreshCurrentMenu(
             SetRotation(SettingsSet(s, "orientation", "left"), 180),
             FALSE, e)
    ELSE IF item.function = "set_orientation_right"
    THEN RefreshCurrentMenu(
             SetRotation(SettingsSet(s, "orientation", "right"), 0),
             FALSE, e)
    ELSE s

-----------------------------------------------------------------------------
(* interface/dynamic_menu.py: edit sessions *)

\* hue values are held in units of 1/HueDen: one step of 1/BarWidth is
\* HueDen / BarWidth units
HueDen == 11000

\* int(x) of a quotient: truncation toward zero (den > 0)
TruncDiv(num, den) == IF num >= 0 THEN num \div den ELSE -((-num) \div den)

\* round(num / den): to nearest, ties to even (den > 0)
RoundDiv(num, den) ==
    LET q == num \div den
        r == num % den
    IN  IF 2 * r < den THEN q
        ELSE IF 2 * r > den THEN q + 1
        ELSE IF q % 2 = 0 THEN q ELSE q + 1

\* DynamicMenu._render_brightness_bar
RenderBrightnessBar(s) ==
    LET min_val == s.edit_config.min
        max_val == s.edit_config.max
        fill_width == IF max_val > min_val
                      THEN TruncDiv(BarWidth * (s.edit_value - min_val),
                                    max_val - min_val)
                      ELSE 0
    IN  [s EXCEPT !.shown = [kind |-> "brightness_bar", fill_width |-> fill_width]]

\* DynamicMenu._render_hue_bar
RenderHueBar(s) ==
    [s EXCEPT !.shown =
        [kind |-> "hue_bar",
         cursor_pos |-> TruncDiv(4 * HueDen + BarWidth * s.edit_value_float, HueDen)]]

\* DynamicMenu._render_threshold_bar (the live reading shown next to the
\* limit comes from the collaborator and is not part of the state)
RenderThresholdBar(s) ==
    LET min_val == s.edit_config.min
        max_val == s.edit_config.max
    IN  [s EXCEPT !.shown =
            [kind |-> "threshold_bar",
             cursor_pos |-> TruncDiv(4 * (max_val - min_val)
                                       + BarWidth * (s.edit_value - min_val),
                                     max_val - min_val),
             limit |-> s.edit_value]]

\* DynamicMenu._enter_edit_mode
EnterEditMode(s, item, e) ==
    LET s1 == [s EXCEPT !.edit_mode = TRUE, !.edit_config = item]
    IN  IF item.function = ""
        THEN [s1 EXCEPT !.edit_value = item.min]
        ELSE RefreshCurrentMenu(
                 [s1 EXCEPT !.edit_value =
                     IF FuncKind(item.function) = "display_brightness"
                     THEN GetDisplayBrightness(s)
                     ELSE IF FuncKind(item.function) = "led_brightness"
                     THEN GetLedBrightness(s)
                     ELSE item.min], FALSE, e)

\* DynamicMenu._enter_brightness_bar_mode (with _show_rainbow_pattern)
EnterBrightnessBarMode(s, item, e) ==
    LET s1 == [s EXCEPT !.edit_mode = TRUE, !.edit_config = item]
    IN  RenderBrightnessBar(
            IF FuncKind(item.function) = "display_brightness"
            THEN [s1 EXCEPT !.edit_value = GetDisplayBrightness(s)]
            ELSE IF FuncKind(item.function) = "led_brightness"
            THEN [s1 EXCEPT !.edit_value = GetLedBrightness(s),
                            !.led = [@ EXCEPT !.show = "rainbow"],
                            !.showing_rainbow = TRUE]
            ELSE [s1 EXCEPT !.edit_value = item.min])

\* DynamicMenu._enter_hue_bar_mode (SentryHubInterface passes no
\* led_ipc_server, so there is no pause flag to set)
EnterHueBarMode(s, item, e) ==
    LET hue == GetAlertHue(s, item.alert_type)
    IN  RenderHueBar(
            [s EXCEPT !.edit_mode = TRUE, !.edit_config = item,
                      !.edit_value_float = hue,
                      !.led = [@ EXCEPT !.show = "hue", !.hue = hue]])

\* DynamicMenu._enter_threshold_bar_mode
EnterThresholdBarMode(s, item, e) ==
    RenderThresholdBar(
        [s EXCEPT !.edit_mode = TRUE, !.edit_config = item,
                  !.editing_sensor = item.sensor,
                  !.edit_value =
                      IF item.sensor # ""
                      THEN Get(s.sensor_limits, item.sensor, 0)
                      ELSE 0])

\* _set_display_brightness / _set_led_brightness / _set_alert_hue_*
CallSetter(s, func, value) ==
    IF func = "set_display_brightness"
    THEN SetContrast(SettingsSetBrightness(s, "display_brightness", value), value)
    ELSE IF func = "set_led_brightness"
    THEN [SettingsSetBrightness(s, "led_brightness", value)
             EXCEPT !.led = [@ EXCEPT !.brightness = value]]
    ELSE IF func = "set_alert_hue_normal" THEN SettingsSetAlertHue(s, "normal", value)
    ELSE IF func = "set_alert_hue_warn" THEN SettingsSetAlertHue(s, "warn", value)
    ELSE IF func = "set_alert_hue_alert" THEN SettingsSetAlertHue(s, "alert", value)
    ELSE s

\* DynamicMenu._save_edit_value
SaveEditValue(s, e) ==
    LET s1 ==
            IF s.edit_config.type = "hue_bar"
            THEN CallSetter(s, s.edit_config.function, s.edit_value_float)
            ELSE IF s.edit_config.type = "threshold_bar"
            THEN [(IF s.editing_sensor # "" /\ e.update_ok
                   THEN [s EXCEPT !.sensor_limits =
                                      Put(@, s.editing_sensor, s.edit_value)]
                   ELSE s)
                  EXCEPT !.editing_sensor = ""]
            ELSE CallSetter(s, s.edit_config.function, s.edit_value)
    IN  IF s1.showing_rainbow
        THEN [s1 EXCEPT !.showing_rainbow = FALSE,
                        !.led = [@ EXCEPT !.show = "off"]]
        ELSE s1

\* one detent of a bar without the clamp
BarAdjustNoClamp(value, min_val, max_val, delta) ==
    LET step == max_val - min_val
        moved == value * BarWidth + (IF delta < 0 THEN step ELSE -step)
    IN  RoundDiv(moved, BarWidth)

\* one detent of a bar with the step scaled by the size of the delta
BarAdjustScaled(value, min_val, max_val, delta) ==
    LET step == max_val - min_val
        moved == value * BarWidth - delta * step
        clamped == Max(min_val * BarWidth, Min(max_val * BarWidth, moved))
    IN  RoundDiv(clamped, BarWidth)

\* encoder_rotated, bar branches: value +/- (max - min) / bar_width, clamped
\* to [min, max], then int(round(...))
BarAdjust(value, min_val, max_val, delta) ==
    LET step == max_val - min_val
        moved == value * BarWidth + (IF delta < 0 THEN step ELSE -step)
        clamped == Max(min_val * BarWidth, Min(max_val * BarWidth, moved))
    IN  RoundDiv(clamped, BarWidth)

\* encoder_rotated, standard edit branch with a step of 1 for every delta
SimpleAdjustUnitStep(value, min_val, max_val, delta) ==
    LET step == 1
        moved == value + (IF delta < 0 THEN step ELSE -step)
    IN  Max(min_val, Min(max_val, moved))

\* encoder_rotated, standard edit branch: step 1 for one detent, 5 otherwise
SimpleAdjust(value, min_val, max_val, delta) ==
    LET step == IF delta = 1 \/ delta = -1 THEN 1 ELSE 5
        moved == value + (IF delta < 0 THEN step ELSE -step)
    IN  Max(min_val, Min(max_val, moved))

\* encoder_rotated, hue branch: value +/- 1 / bar_width, clamped to [0, 1]
HueAdjust(value, delta) ==
    LET step == HueDen \div BarWidth
        moved == value + (IF delta < 0 THEN step ELSE -step)
    IN  Max(0, Min(HueDen, moved))

\* hardware_contrast = int(5 + (edit_value / 255.0) * (255 - 5))
HardwareContrast(value) == TruncDiv(5 * 255 + value * 250, 255)

\* DynamicMenu.encoder_rotated, the edit_mode branch
EditRotate(s, delta, e) ==
    IF s.edit_config.type = "brightness_bar"
    THEN LET v == BarAdjust(s.edit_value, s.edit_config.min, s.edit_config.max, delta)
             s1 == [s EXCEPT !.edit_value = v]
             s2 == IF FuncKind(s.edit_config.function) = "display_brightness"
                   THEN SetContrast(s1, HardwareContrast(v))
                   ELSE IF FuncKind(s.edit_config.function) = "led_brightness"
                           /\ s.showing_rainbow
                   THEN [s1 EXCEPT !.led = [@ EXCEPT !.brightness = v]]
                   ELSE s1
         IN  RenderBrightnessBar(s2)
    ELSE IF s.edit_config.type = "hue_bar"
    THEN LET h == HueAdjust(s.edit_value_float, delta)
         IN  RenderHueBar([s EXCEPT !.edit_value_float = h,
                                    !.led = [@ EXCEPT !.show = "hue", !.hue = h]])
    ELSE IF s.edit_config.type = "threshold_bar"
    THEN RenderThresholdBar(
             [s EXCEPT !.edit_value =
                 BarAdjust(s.edit_value, s.edit_config.min, s.edit_config.max, delta)])
    ELSE RefreshCurrentMenu(
             [s EXCEPT !.edit_value =
                 SimpleAdjust(s.edit_value, s.edit_config.min, s.edit_config.max, delta)],
             FALSE, e)

\* DynamicMenu.encoder_rotated
EncoderRotated(s, delta, e) ==
    LET s1 == WakeDisplay(s, e)
    IN  IF s1.boot_screen_active THEN s1
        ELSE IF s1.edit_mode THEN EditRotate(s1, delta, e)
        ELSE IF delta > 0 THEN MoveCursorUp(s1, e)
        ELSE MoveCursorDown(s1, e)

-----------------------------------------------------------------------------
(* interface/dynamic_menu.py: button, refresh loop, workers *)

\* the item a press dispatches on: expanded_items[selected_index]
\* (NoItem when selected_index >= len(expanded_items))
\* the selection without the test of selected_index against the item count:
\* a stale index activates the last item
SelectedItemUnchecked(s) ==
    LET expanded == ExpandItems(GetCurrentMenuItems(s), s.api_sensors)
        selected_index == GetSelectedItemIndex(s)
    IN  IF expanded = <<>> THEN NoItem
        ELSE expanded[Min(selected_index + 1, Len(expanded))]

\* DynamicMenu.button_pressed: expanded_items[selected_index], if there is one
SelectedItem(s) ==
    LET expanded == ExpandItems(GetCurrentMenuItems(s), s.api_sensors)
        selected_index == GetSelectedItemIndex(s)
    IN  IF selected_index >= Len(expanded) THEN NoItem
        ELSE expanded[selected_index + 1]

\* DynamicMenu.button_pressed, after the wake and edit-mode tests
Dispatch(s, e) ==
    LET items == GetCurrentMenuItems(s)
        summary == HasSensorSummary(items)
        s1 == IF summary
              THEN [s EXCEPT !.sensor_limits = GetLimits(s, e),
                             !.last_sensor_list =
                                 IF s.api_sensors # @ THEN s.api_sensors ELSE @]
              ELSE s
        item == SelectedItem(s)
    IN  IF item.type = "back" THEN NavigateBack(s1, e)
        ELSE IF item.type \in {"submenu", "dynamic_submenu"}
        THEN IF item.submenu # "" THEN NavigateTo(s1, item.submenu, e) ELSE s1
        ELSE IF item.type = "checkbox" THEN HandleCheckbox(s1, item, e)
        ELSE IF item.type = "editable" THEN EnterEditMode(s1, item, e)
        ELSE IF item.type = "brightness_bar" THEN EnterBrightnessBarMode(s1, item, e)
        ELSE IF item.type = "hue_bar" THEN EnterHueBarMode(s1, item, e)
        ELSE IF item.type = "threshold_bar" THEN EnterThresholdBarMode(s1, item, e)
        ELSE s1

\* button_pressed that leaves an edit session without _save_edit_value
ButtonPressedDiscard(s, e) ==
    LET was_sleeping == s.display_sleeping
        s1 == WakeDisplay(s, e)
    IN  IF was_sleeping THEN s1
        ELSE IF s1.display_sleeping \/ s1.boot_screen_active THEN s1
        ELSE IF s1.edit_mode
        THEN RefreshCurrentMenu([s1 EXCEPT !.edit_mode = FALSE], FALSE, e)
        ELSE Dispatch(s1, e)

\* DynamicMenu.button_pressed
ButtonPressed(s, e) ==
    LET was_sleeping == s.display_sleeping
        s1 == WakeDisplay(s, e)
    IN  IF was_sleeping THEN s1
        ELSE IF s1.display_sleeping \/ s1.boot_screen_active THEN s1
        ELSE IF s1.edit_mode
        THEN RefreshCurrentMenu([SaveEditValue(s1, e) EXCEPT !.edit_mode = FALSE],
                                FALSE, e)
        ELSE Dispatch(s1, e)

\* DynamicMenu._refresh_loop, one iteration
RefreshLoopStep(s, e) ==
    LET s1 == CheckSleep(s)
    IN  IF ~s1.display_sleeping /\ ~s1.edit_mode
        THEN LET items == GetCurrentMenuItems(s1)
                 due == {f \in DynamicFunctionsOf(items) :
                            \E i \in DOMAIN items :
                                /\ items[i].type \in {"dynamic", "dynamic_submenu"}
                                /\ items[i].function = f
                                /\ ShouldRefreshItem(s1, items[i])}
             IN  IF due # {}
                 THEN RefreshCurrentMenu(RecomputeDynamic(s1, due, e), TRUE, e)
                 ELSE s1
        ELSE s1

\* DynamicMenu._do_ap_scan, run by the thread _navigate_to started
DoApScan(s, e) ==
    LET s1 == [s EXCEPT !.scanned_aps = e.scan, !.scanning_aps = FALSE,
                        !.scan_workers = @ - 1,
                        !.scan_latest = IF e.latest THEN FALSE ELSE @]
    IN  IF s1.current_menu_name = "scan_aps"
        THEN RefreshCurrentMenu(s1, TRUE, e)
        ELSE s1

\* DynamicMenu._boot_check_loop, one iteration
BootCheckStep(s, e) ==
    IF s.boot_screen_active /\ s.api_available
    THEN RefreshCurrentMenu([s EXCEPT !.boot_screen_active = FALSE,
                                      !.scroll_index = 0], FALSE, e)
    ELSE s

-----------------------------------------------------------------------------
(* The menu definition and the environment of Spec *)

\* config/menu_config.yaml as loaded by DynamicMenu.__init__: three menu
\* definitions, one around each kind of content
SensorsConfig ==
    [main |->
        << [BaseItem EXCEPT !.type = "sensor_summary",
                            !.text = "Sensors: {sensor_count}"],
           BackItem("Back") >>]

NetworkConfig ==
    [main |->
        << StaticItem("dB Sentry"),
           SubmenuItem("Network", "network") >>,
     network |->
        << DynamicItem("SSID: {ssid}", "get_wifi_ssid", 5),
           DynamicItem("IP: {ip}", "get_ip_address", OnNavigate),
           SubmenuItem("Scan", "scan_aps"),
           BackItem("Back") >>]

SettingsConfig ==
    [main |->
        << SubmenuItem("Settings", "settings"),
           StaticItem("dB Sentry") >>,
     settings |->
        << EditItem("brightness_bar", "Brightness", "set_display_brightness", 0, 255),
           EditItem("editable", "LED: {led_brightness}", "set_led_brightness", 0, 255),
           HueItem("Normal hue", "set_alert_hue_normal", "normal"),
           CheckboxItem("{orientation_right_check} Knob right",
                        "set_orientation_right", "orientation", "right"),
           BackItem("Back") >>]

Configs == {SensorsConfig, NetworkConfig, SettingsConfig}

\* UserSettings._get_defaults
DefaultSettings ==
    [display_brightness |-> DefaultDisplayBrightness,
     led_brightness |-> DefaultLedBrightness,
     orientation |-> "left"]

\* what limit_api.get_sensors() can return
SensorLists == { <<"kitchen">>, <<"yard", "kitchen">> }

\* limits the limit-service can hold for a sensor (POST /limits accepts any
\* integer; DBA_LIMIT defaults to 50)
LimitValues == {50, 200}

\* results of the dynamic functions
DynChoices == { [f \in DynFuncs |-> "v1"], [f \in DynFuncs |-> Raises] }

\* results of _scan_aps (sorted by signal, at most 10)
ScanResults == { <<>>, << <<"home", 80>>, <<"cafe", 30>> >> }

\* a handler only reads the collaborators its menu definition leads to, so
\* the other results are left at their defaults
UsesDynamic(cfg) ==
    \E m \in DOMAIN cfg : DynamicFunctionsOf(cfg[m]) # {}
UsesSensors(cfg) ==
    \E m \in DOMAIN cfg : HasSensorSummary(cfg[m])

RenderEnvs ==
    {[DefaultEnv EXCEPT !.dyn = d, !.limit = l] :
        d \in IF UsesDynamic(config) THEN DynChoices ELSE {DefaultEnv.dyn},
        l \in IF UsesSensors(config) THEN LimitValues ELSE {DefaultEnv.limit}}
PressEnvs ==
    {[x EXCEPT !.update_ok = up] :
        x \in RenderEnvs,
        up \in IF edit_mode /\ edit_config.type = "threshold_bar"
               THEN BOOLEAN ELSE {TRUE}}
ScanEnvs ==
    {[x EXCEPT !.scan = r, !.latest = l] :
        r \in ScanResults, l \in BOOLEAN, x \in RenderEnvs}

\* a scan thread of that kind is in flight: the one started by the latest
\* entry of the scan menu, or one started by an earlier entry
CanFinish(s, latest) ==
    IF latest THEN s.scan_latest
    ELSE s.scan_workers > (IF s.scan_latest THEN 1 ELSE 0)

Deltas == {-1, 1}
TimeSteps == {INACTIVITY_TIMEOUT + 1}

-----------------------------------------------------------------------------
(* Initial state: DynamicMenu.__init__ *)

\* the fields as the constructor sets them, before the first render
Constructed(cfg, stored, available, sensor_list) ==
    [config |-> cfg, boot_screen_active |-> TRUE,
     menu_stack |-> <<"main">>, current_menu_name |-> "main",
     edit_mode |-> FALSE, edit_value |-> 0, edit_value_float |-> 0,
     edit_config |-> NoItem, editing_sensor |-> "", showing_rainbow |-> FALSE,
     display_sleeping |-> FALSE, last_activity |-> StartTime,
     dynamic_values |-> EmptyDict, refresh_timers |-> EmptyDict,
     sensor_limits |-> EmptyDict, last_sensor_list |-> <<>>,
     sensor_details_cache |-> EmptyDict,
     scanning_aps |-> FALSE, scanned_aps |-> <<>>, scan_workers |-> 0,
     scan_latest |-> FALSE,
     current_menu |-> NoMenu, scroll_index |-> 0, cursor_position |-> 0,
     contrast |-> Get(stored, "display_brightness", DefaultDisplayBrightness),
     rotation |-> IF Get(stored, "orientation", "left") = "left" THEN 180 ELSE 0,
     shown |-> Cleared, settings |-> stored, settings_file |-> stored,
     disk_ok |-> TRUE,
     pc |-> [input |-> "idle", tick |-> "idle", scan |-> "idle",
            boot |-> "idle"],
     lock |-> "none", actor |-> "none",
     led |-> [brightness |-> Get(stored, "led_brightness", DefaultLedBrightness),
              show |-> "off", hue |-> 0,
              status |-> "", pause_updates |-> FALSE],
     now |-> StartTime, api_available |-> available, api_sensors |-> sensor_list]

\* DynamicMenu.__init__: boot screen, or the first render of "main"
Started(cfg, stored, available, sensor_list, e) ==
    LET s == Constructed(cfg, stored, available, sensor_list)
    IN  IF ~available
        THEN [s EXCEPT !.shown = BootScreen]
        ELSE RefreshCurrentMenu([s EXCEPT !.boot_screen_active = FALSE], FALSE, e)

InitStates ==
    {Started(c, DefaultSettings, a, l, [DefaultEnv EXCEPT !.dyn = d, !.limit = v]) :
        c \in Configs, a \in BOOLEAN, l \in SensorLists,
        d \in DynChoices, v \in LimitValues}

Init == \E t \in InitStates : Is(t)

-----------------------------------------------------------------------------
(* Actions: one per handler or thread step *)

\* Spec explores edit values only near the ends of the item's range and near
\* the seeds; EditSpec explores the whole range
NearAnchor(v, anchors, drift) == \E a \in anchors : v - a <= drift /\ a - v <= drift

\* the size of one detent of an edit session of the given item
DetentSize(item) ==
    IF item.type = "hue_bar" THEN HueDen \div BarWidth
    ELSE IF item.type \in {"brightness_bar", "threshold_bar"}
    THEN RoundDiv(item.max - item.min, BarWidth)
    ELSE 1

EditBounded(t) ==
    t.edit_mode =>
        IF t.edit_config.type = "hue_bar"
        THEN NearAnchor(t.edit_value_float, {0, HueDen},
                        MaxEditDrift * DetentSize(t.edit_config))
        ELSE NearAnchor(t.edit_value,
                        {t.edit_config.min, t.edit_config.max,
                         DefaultDisplayBrightness} \cup LimitValues,
                        MaxEditDrift * DetentSize(t.edit_config))

\* the encoder's when_rotated callback: DynamicMenu.encoder_rotated(delta)
Rotate ==
    \E delta \in Deltas, e \in RenderEnvs :
        \E t \in {EncoderRotated(S, delta, e)} :
            /\ EditBounded(t)
            /\ Apply(t)

\* the button's when_pressed callback: DynamicMenu.button_pressed()
Press ==
    \E e \in PressEnvs :
        \E t \in {ButtonPressed(S, e)} :
            /\ t.scan_workers <= MaxScanWorkers
            /\ Apply(t)

\* one iteration of the refresh thread
RefreshTick == \E e \in RenderEnvs : \E t \in {RefreshLoopStep(S, e)} : Apply(t)

\* a scan thread finishes
ScanDone ==
    /\ scan_workers > 0
    /\ \E e \in ScanEnvs :
          /\ CanFinish(S, e.latest)
          /\ \E t \in {DoApScan(S, e)} : Apply(t)

\* one iteration of the boot check thread
BootCheck ==
    /\ boot_screen_active
    /\ api_available
    /\ \E e \in RenderEnvs : \E t \in {BootCheckStep(S, e)} : Apply(t)

\* the clock advances
AdvanceTime ==
    \E d \in TimeSteps :
        /\ now + d <= MaxTime
        /\ Apply([S EXCEPT !.now = @ + d])

\* the set of active sensors changes at the limit-service
SensorsChange ==
    \E l \in SensorLists :
        /\ l # api_sensors
        /\ Apply([S EXCEPT !.api_sensors = l])

\* the limit-service comes up
ApiUp ==
    /\ ~api_available
    /\ Apply([S EXCEPT !.api_available = TRUE])

Next ==
    \/ Rotate
    \/ Press
    \/ RefreshTick
    \/ ScanDone
    \/ BootCheck
    \/ AdvanceTime
    \/ SensorsChange
    \/ ApiUp

Spec == Init /\ [][Next]_vars

-----------------------------------------------------------------------------
(* MenuSpec: Menu construction and frame lookup on their own.              *)
(* current_menu holds the Menu built, scroll_index the offset requested    *)
(* and shown the frame get_frame returned (Cleared: nothing requested yet) *)

MenuTexts == {"a", "b"}

RECURSIVE SeqsUpTo(_, _)
SeqsUpTo(set, n) ==
    IF n = 0 THEN {<<>>}
    ELSE LET shorter == SeqsUpTo(set, n - 1)
         IN  shorter \cup {Append(q, x) : q \in shorter, x \in set}

\* item lists handed to Menu(...): static texts, some marked as submenus
MenuItemLists ==
    SeqsUpTo({MenuText(Text(t, "", FALSE), FALSE, BlankText) : t \in MenuTexts}, MaxItems)

RequestedOffsets == (-2) .. (MaxItems + 2)

MenuBase == Constructed(SensorsConfig, DefaultSettings, TRUE, <<>>)

\* Menu([]) before any item list is loaded
MenuInit ==
    Is([MenuBase EXCEPT !.current_menu = Menu(<<>>), !.scroll_index = 0])

\* menu = Menu(items)
MenuBuild ==
    \E items \in MenuItemLists, idx \in RequestedOffsets :
        Apply([S EXCEPT !.current_menu = Menu(items), !.scroll_index = idx,
                        !.shown = Cleared])

\* frame = menu.get_frame(scroll_index)
MenuGetFrame ==
    Apply([S EXCEPT !.shown = GetFrame(current_menu, scroll_index)])

MenuNext == MenuBuild \/ MenuGetFrame

MenuSpec == MenuInit /\ [][MenuNext]_vars

-----------------------------------------------------------------------------
(* EditSpec: edit sessions over the whole range of each item. A session is *)
(* entered from the menu and rotated; commits are explored in Spec.        *)

BrightnessConfig ==
    [main |-> << EditItem("brightness_bar", "Brightness",
                          "set_display_brightness", 0, 255) >>]
LedConfig ==
    [main |-> << EditItem("editable", "LED: {led_brightness}",
                          "set_led_brightness", 0, 255) >>]
HueConfig ==
    [main |-> << HueItem("Normal hue", "set_alert_hue_normal", "normal") >>]

EditConfigs == {BrightnessConfig, LedConfig, HueConfig, SensorsConfig}

\* contents of user_settings.json at startup
EditSettings ==
    {[DefaultSettings EXCEPT !.display_brightness = b] : b \in {0, 180}}
    \cup {[x \in (DOMAIN DefaultSettings) \cup {HueKey("normal")} |->
              IF x = HueKey("normal") THEN h ELSE DefaultSettings[x]] :
             h \in {0, 3630}}

EditDeltas == {-2, -1, 1, 2}

EditInit ==
    \E c \in EditConfigs, stored \in EditSettings, v \in LimitValues :
        Is(Started(c, stored, TRUE, <<"kitchen">>, [DefaultEnv EXCEPT !.limit = v]))

SessionRotate ==
    \E delta \in EditDeltas, e \in RenderEnvs :
        \E t \in {EncoderRotated(S, delta, e)} : Apply(t)

SessionPress ==
    /\ ~edit_mode
    /\ \E e \in RenderEnvs : \E t \in {ButtonPressed(S, e)} : Apply(t)

EditNext == SessionRotate \/ SessionPress

EditSpec == EditInit /\ [][EditNext]_vars

-----------------------------------------------------------------------------
(* Properties of the cursor and of navigation (Spec) *)

\* the menu list is on screen and takes input
Browsing(s) ==
    /\ ~s.display_sleeping
    /\ ~s.boot_screen_active
    /\ ~s.edit_mode
    /\ s.current_menu # NoMenu

\* the step taken is encoder_rotated(delta)
RotationStep(delta) ==
    \E e \in RenderEnvs : S' = EncoderRotated(S, delta, e)

\* the step taken is button_pressed()
PressStep ==
    \E e \in PressEnvs : S' = ButtonPressed(S, e)

\* C1: while the menu list is shown, the selected index equals the scroll
\* offset, and the item a press dispatches on is the item drawn in the
\* highlighted middle row of the frame on screen.
C1_PressedItemIsHighlighted ==
    (Browsing(S) /\ shown.kind = "menu") =>
        /\ GetSelectedItemIndex(S) = scroll_index
        /\ shown.line2 = Row(current_menu.raw_items, GetSelectedItemIndex(S) + 1)

\* C2: the scroll offset never exceeds max(0, N - 1), N the number of real
\* items of the menu on screen.
C2_ScrollWithinItems ==
    current_menu # NoMenu => scroll_index <= Max(0, RealCount(current_menu) - 1)

\* C3: awake, out of the boot screen and of edit sessions, a CursorDown
\* raises the scroll offset by exactly 1 below N - 1 and changes nothing at
\* N - 1; a CursorUp lowers it by exactly 1 above 0 and changes nothing at 0.
C3_CursorMovesOneRow ==
    [][Browsing(S) =>
          /\ RotationStep(-1) =>
                scroll_index' = IF scroll_index < RealCount(current_menu) - 1
                                THEN scroll_index + 1 ELSE scroll_index
          /\ RotationStep(1) =>
                scroll_index' = IF scroll_index > 0
                                THEN scroll_index - 1 ELSE scroll_index]_vars

\* C4: the navigation stack is never empty and its top names the current
\* menu; a press on a Back item with one entry on the stack leaves the
\* stack, the current menu and the scroll offset as they were.
C4_StackTopIsCurrent ==
    /\ [](menu_stack # <<>> /\ menu_stack[Len(menu_stack)] = current_menu_name)
    /\ [][(/\ Len(menu_stack) = 1
           /\ Browsing(S)
           /\ SelectedItem(S).type = "back"
           /\ PressStep)
          => UNCHANGED <<menu_stack, current_menu_name, scroll_index, current_menu>>]_vars

\* a sensor menu was visited and left again, and Back is selected at depth 1
C4_Witness ==
    /\ Len(menu_stack) = 1
    /\ Browsing(S)
    /\ SelectedItem(S).type = "back"
    /\ sensor_details_cache # EmptyDict

\* the menus the items of the current menu lead to
Submenus(s) ==
    LET expanded == ExpandItems(GetCurrentMenuItems(s), s.api_sensors)
    IN  {expanded[i].submenu :
            i \in {j \in DOMAIN expanded :
                      /\ expanded[j].type \in {"submenu", "dynamic_submenu"}
                      /\ expanded[j].submenu # ""}}

\* C5: NavigateTo pushes exactly one name and NavigateBack pops exactly the
\* top one, so every matched sequence of NavigateTo / NavigateBack pairs
\* (one pair, two nested pairs, two pairs in a row) returns the stack to
\* what it was before the sequence.
C5_MatchedPairsRestoreStack ==
    /\ [](\A a \in Submenus(S) :
            LET one == NavigateTo(S, a, DefaultEnv)
                back == NavigateBack(one, DefaultEnv)
            IN  /\ one.menu_stack = Append(menu_stack, a)
                /\ back.menu_stack = menu_stack
                /\ \A b \in Submenus(one) :
                       NavigateBack(NavigateBack(NavigateTo(one, b, DefaultEnv),
                                                 DefaultEnv), DefaultEnv).menu_stack
                           = menu_stack
                /\ \A b \in Submenus(back) :
                       NavigateBack(NavigateTo(back, b, DefaultEnv),
                                    DefaultEnv).menu_stack
                           = menu_stack)
    /\ [][\/ (Len(menu_stack') = Len(menu_stack) + 1
              /\ SubSeq(menu_stack', 1, Len(menu_stack)) = menu_stack)
          \/ (Len(menu_stack) > 1
              /\ menu_stack' = SubSeq(menu_stack, 1, Len(menu_stack) - 1))
          \/ menu_stack' = menu_stack]_vars

\* the scan menu (depth 3) was entered, its scan finished, and two
\* NavigateBack brought the stack back to the root
C5_Witness ==
    /\ menu_stack = <<"main">>
    /\ scanned_aps # <<>>
    /\ ~scanning_aps

RECURSIVE CursorDowns(_, _)
CursorDowns(s, k) ==
    IF k = 0 THEN s ELSE CursorDowns(MoveCursorDown(s, DefaultEnv), k - 1)

RECURSIVE CursorUps(_, _)
CursorUps(s, m) ==
    IF m = 0 THEN s ELSE CursorUps(MoveCursorUp(s, DefaultEnv), m - 1)

\* C6: the scroll offset is never negative, and on a menu just navigated
\* to, k CursorDown events followed by m >= k CursorUp events end at
\* offset 0.
C6_DownsThenUpsEndAtZero ==
    /\ [](scroll_index >= 0)
    /\ [][(menu_stack' # menu_stack /\ Browsing(S')) =>
             \A k \in 0 .. MaxPresses : \A m \in k .. (MaxPresses + 2) :
                 CursorUps(CursorDowns(S', k), m).scroll_index = 0]_vars

-----------------------------------------------------------------------------
(* Properties of Menu (MenuSpec) *)

\* C7: a Menu of N real items caches exactly the frames of offsets
\* 0 .. N - 1, the frame of offset o showing item o in its middle row, and
\* for N >= 1 a request for any offset returns the frame of that offset
\* clamped to 0 .. N - 1.
C7_OneFramePerOffset ==
    LET N == RealCount(current_menu)
        raw == current_menu.raw_items
        cache == current_menu.frame_cache
    IN  /\ DOMAIN cache = 0 .. (N - 1)
        /\ \A o \in 0 .. (N - 1) :
               /\ cache[o].line1 = raw[o + 1]
               /\ cache[o].line2 = raw[o + 2]
               /\ cache[o].line3 = raw[o + 3]
        /\ (N >= 1 /\ shown # Cleared) =>
               shown = cache[Max(0, Min(scroll_index, N - 1))]

\* an offset above the last one was requested and the last frame came back
C7_Witness ==
    /\ RealCount(current_menu) >= 2
    /\ scroll_index > RealCount(current_menu) - 1
    /\ shown = current_menu.frame_cache[RealCount(current_menu) - 1]

-----------------------------------------------------------------------------
(* Properties of edit sessions (EditSpec) *)

\* the value of the open session: edit_value_float (in 1/HueDen) for a hue
\* bar, edit_value otherwise
SessionValue(s) ==
    IF s.edit_config.type = "hue_bar" THEN s.edit_value_float ELSE s.edit_value

SessionMin(s) == IF s.edit_config.type = "hue_bar" THEN 0 ELSE s.edit_config.min
SessionMax(s) == IF s.edit_config.type = "hue_bar" THEN HueDen ELSE s.edit_config.max

ValueInRange(s) ==
    SessionMin(s) <= SessionValue(s) /\ SessionValue(s) <= SessionMax(s)

\* the step taken is encoder_rotated(delta) inside an open session
SessionRotationStep(delta) ==
    /\ edit_mode
    /\ edit_mode'
    /\ \E e \in RenderEnvs : S' = EncoderRotated(S, delta, e)

\* C8: after every rotation in an open edit session min <= value <= max
\* (0 <= value <= 1 for a hue bar), whatever the value was before it.
C8_RotationLeavesValueInRange ==
    [][(\E delta \in EditDeltas : SessionRotationStep(delta)) => ValueInRange(S')]_vars

\* a threshold session seeded with 200, above its maximum of 150, was
\* rotated and now holds 150
C8_Witness ==
    /\ edit_mode
    /\ edit_config.type = "threshold_bar"
    /\ Get(sensor_limits, editing_sensor, 0) > edit_config.max
    /\ edit_value = edit_config.max

\* C9: on entry the seed is clamped into the item's range, so the value is
\* within [min, max] whenever an edit session is open.
C9_ValueInRangeWhileOpen ==
    edit_mode => ValueInRange(S)

\* what one detent adds, in units of 1/BarWidth for the bars whose value is
\* an integer, of 1/HueDen for the hue bar, of 1 for the standard edit
StepUnit(s) ==
    IF s.edit_config.type \in {"brightness_bar", "threshold_bar"} THEN BarWidth ELSE 1

StepOf(s, delta) ==
    LET size == IF s.edit_config.type \in {"brightness_bar", "threshold_bar"}
                THEN s.edit_config.max - s.edit_config.min
                ELSE IF s.edit_config.type = "hue_bar" THEN HueDen \div BarWidth
                ELSE IF delta = 1 \/ delta = -1 THEN 1 ELSE 5
    IN  IF delta < 0 THEN size ELSE -size

\* round(clamp(x, min, max)) of x given in units of 1/StepUnit
RoundClamp(s, x) ==
    RoundDiv(Max(SessionMin(s) * StepUnit(s), Min(SessionMax(s) * StepUnit(s), x)),
             StepUnit(s))

\* C10 as amended: each rotation in an open session leaves
\* round(clamp(value before + step, min, max)), the step being
\* +/-(max - min)/110 for a brightness or threshold bar, +/-1/110 for a hue
\* bar, and +/-1 (one detent) or +/-5 (more) for the standard edit; the
\* clamp and the rounding are applied at every rotation.
C10_EachRotationRoundsClampedStep ==
    [][\A delta \in EditDeltas :
          SessionRotationStep(delta) =>
              SessionValue(S') =
                  RoundClamp(S, SessionValue(S) * StepUnit(S) + StepOf(S, delta))]_vars

\* a brightness session left its seed, 180, by rotations whose steps of
\* 255/110 were each rounded to 2
C10_Witness ==
    /\ edit_mode
    /\ edit_config.type = "brightness_bar"
    /\ GetDisplayBrightness(S) = 180
    /\ edit_value = 184

RECURSIVE Rotations(_, _)
Rotations(s, deltas) ==
    IF deltas = <<>> THEN s
    ELSE Rotations(EditRotate(s, Head(deltas), DefaultEnv), Tail(deltas))

RECURSIVE SumOfSteps(_, _)
SumOfSteps(s, deltas) ==
    IF deltas = <<>> THEN 0
    ELSE StepOf(s, Head(deltas)) + SumOfSteps(s, Tail(deltas))

DeltaSeqs == SeqsUpTo(EditDeltas, MaxRotations) \ {<<>>}

\* C10: for every sequence of rotation deltas applied to a session just
\* entered, the value equals round(clamp(initial + sum of steps, min, max)).
C10_ValueIsRoundedClampedSum ==
    [][(~edit_mode /\ edit_mode') =>
          \A deltas \in DeltaSeqs :
              SessionValue(Rotations(S', deltas)) =
                  RoundClamp(S', SessionValue(S') * StepUnit(S')
                                   + SumOfSteps(S', deltas))]_vars

\* a brightness-bar session over 0 .. 255
BrightnessSession(s) ==
    /\ s.edit_mode
    /\ s.edit_config.type = "brightness_bar"
    /\ s.edit_config.min = 0
    /\ s.edit_config.max = 255

\* the detent does not run into min or max
Unclamped(s, delta) ==
    LET moved == SessionValue(s) * StepUnit(s) + StepOf(s, delta)
    IN  SessionMin(s) * StepUnit(s) <= moved /\ moved <= SessionMax(s) * StepUnit(s)

\* n rotations of the same delta inside a session
RECURSIVE RotateTimes(_, _, _)
RotateTimes(s, delta, n) ==
    IF n = 0 \/ ~s.edit_mode THEN s
    ELSE IF n = 1 THEN EditRotate(s, delta, DefaultEnv)
    ELSE RotateTimes(RotateTimes(s, delta, n \div 2), delta, n - (n \div 2))

\* C11: in a brightness-bar session over 0 .. 255 (bar width 110) a rotation
\* that is not clamped changes the value by exactly 2, up or down, and 130
\* increasing rotations from any value in 0 .. 255 leave the value at 255.
C11_StepOfTwoAndFullSweep ==
    /\ [](BrightnessSession(S) /\ ValueInRange(S) =>
             RotateTimes(S, -1, 130).edit_value = 255)
    /\ [][\A delta \in EditDeltas :
             (BrightnessSession(S) /\ SessionRotationStep(delta) /\ Unclamped(S, delta))
                 => edit_value' = edit_value + (IF delta < 0 THEN 2 ELSE -2)]_vars

\* a session seeded with 0 was rotated up to the maximum
C11_Witness ==
    /\ BrightnessSession(S)
    /\ GetDisplayBrightness(S) = 0
    /\ edit_value = 255

-----------------------------------------------------------------------------
(* Properties of commit, sleep and wake (Spec) *)

\* what the bound setter (or the sensor-limit update) leaves behind when it
\* is called with the value of the session open in S
CommitEffect(e) ==
    IF edit_config.type = "hue_bar"
    THEN GetAlertHue(S', edit_config.alert_type) = edit_value_float
    ELSE IF edit_config.type = "threshold_bar"
    THEN /\ editing_sensor' = ""
         /\ IF editing_sensor # "" /\ e.update_ok
            THEN Get(sensor_limits', editing_sensor, -1) = edit_value
            ELSE sensor_limits' = sensor_limits
    ELSE IF FuncKind(edit_config.function) = "display_brightness"
    THEN /\ GetDisplayBrightness(S') = Max(0, Min(255, edit_value))
         /\ contrast' = edit_value
    ELSE IF FuncKind(edit_config.function) = "led_brightness"
    THEN /\ GetLedBrightness(S') = Max(0, Min(255, edit_value))
         /\ led'.brightness = edit_value
    ELSE TRUE

\* C12: an edit session is closed only by a button press received awake,
\* which calls the item's setter (or the sensor-limit update) with the
\* session's value; every other step leaves the session open on the same
\* item, and only a rotation changes its value.
C12_ClosedOnlyByCommit ==
    [][/\ (edit_mode /\ ~edit_mode') =>
              /\ ~display_sleeping
              /\ \E e \in PressEnvs : S' = ButtonPressed(S, e) /\ CommitEffect(e)
       /\ (edit_mode /\ edit_mode') =>
              /\ edit_config' = edit_config
              /\ \/ SessionValue(S') = SessionValue(S)
                 \/ \E delta \in Deltas : RotationStep(delta)]_vars

\* a display-brightness session was committed with a value other than the
\* stored default
C12_Witness ==
    /\ ~edit_mode
    /\ GetDisplayBrightness(S) # DefaultDisplayBrightness
    /\ contrast = GetDisplayBrightness(S)

\* C13: a button press received while the display sleeps wakes the display
\* and does nothing else: the navigation stack, the scroll offset, the edit
\* session and the persisted settings stay as they were.
C13_SleepingPressOnlyWakes ==
    [][(display_sleeping /\ PressStep) =>
          /\ ~display_sleeping'
          /\ UNCHANGED <<menu_stack, current_menu_name, scroll_index, settings,
                         edit_mode, edit_config, edit_value, edit_value_float>>]_vars

\* C14: a rotation received while the display sleeps only wakes it: the
\* scroll offset does not move and the value of an open edit session does
\* not change.
C14_SleepingRotationOnlyWakes ==
    [][(display_sleeping /\ \E delta \in Deltas : RotationStep(delta)) =>
          /\ ~display_sleeping'
          /\ scroll_index' = scroll_index
          /\ edit_mode => UNCHANGED <<edit_value, edit_value_float>>]_vars

-----------------------------------------------------------------------------
(* RefreshSpec: the refresh loop second by second, on menu definitions     *)
(* that mix refresh policies and put a sensor_summary on and below "main"  *)

RatesConfig ==
    [main |->
        << DynamicItem("SSID: {ssid}", "get_wifi_ssid", 2),
           DynamicItem("IP: {ip}", "get_ip_address", 5) >>]

PolicyConfig ==
    [main |->
        << SubmenuItem("Network", "network"),
           StaticItem("dB Sentry") >>,
     network |->
        << DynamicItem("SSID: {ssid}", "get_wifi_ssid", 5),
           DynamicItem("IP: {ip}", "get_ip_address", OnNavigate),
           BackItem("Back") >>]

SummaryConfig ==
    [main |->
        << [BaseItem EXCEPT !.type = "sensor_summary",
                            !.text = "Sensors: {sensor_count}"],
           DynamicItem("SSID: {ssid}", "get_wifi_ssid", 5),
           BackItem("Back") >>]

NestedSummaryConfig ==
    [main |->
        << SubmenuItem("Sensors", "sensors"),
           StaticItem("dB Sentry") >>,
     sensors |->
        << [BaseItem EXCEPT !.type = "sensor_summary",
                            !.text = "Sensors: {sensor_count}"],
           DynamicItem("SSID: {ssid}", "get_wifi_ssid", 5),
           BackItem("Back") >>]

\* "get_ip" is not a name of the function registry
UnboundConfig ==
    [main |->
        << DynamicItem("SSID: {ssid}", "get_wifi_ssid", 5),
           DynamicItem("IP: {ip}", "get_ip", OnNavigate) >>]

RefreshConfigs ==
    {RatesConfig, PolicyConfig, SummaryConfig, NestedSummaryConfig, UnboundConfig}

\* results of the collaborators in RefreshSpec: the dynamic functions vary
RefreshEnvs ==
    {[DefaultEnv EXCEPT !.dyn = d] :
        d \in IF UsesDynamic(config) THEN DynChoices ELSE {DefaultEnv.dyn}}

RefreshInit ==
    \E c \in RefreshConfigs, l \in SensorLists, d \in DynChoices :
        /\ UsesSensors(c) \/ l = <<"kitchen">>
        /\ Is(Started(c, DefaultSettings, TRUE, l, [DefaultEnv EXCEPT !.dyn = d]))

\* one iteration of the refresh thread
RefreshLoopTick ==
    \E e \in RefreshEnvs : \E t \in {RefreshLoopStep(S, e)} : Apply(t)

\* the clock advances by 2 or 4 seconds
RefreshClock ==
    \E d \in {2, 4} :
        /\ now + d <= StartTime + MaxElapsed
        /\ Apply([S EXCEPT !.now = @ + d])

RefreshRotate ==
    \E delta \in Deltas, e \in RefreshEnvs :
        \E t \in {EncoderRotated(S, delta, e)} : Apply(t)

\* button presses that stay on the menus of the menu definition (the
\* synthesized sensor menus are explored in Spec)
RefreshPress ==
    \E e \in RefreshEnvs :
        \E t \in {ButtonPressed(S, e)} :
            /\ ~IsSensorMenu(t.current_menu_name)
            /\ Apply(t)

\* the set of active sensors changes, where the menu definition shows it
RefreshSensorsChange ==
    /\ UsesSensors(config)
    /\ SensorsChange

RefreshNext ==
    \/ RefreshLoopTick
    \/ RefreshClock
    \/ RefreshRotate
    \/ RefreshPress
    \/ RefreshSensorsChange

RefreshSpec == RefreshInit /\ [][RefreshNext]_vars


-----------------------------------------------------------------------------
(* Claims about the refresh loop *)

\* a step of the refresh thread
RefreshTickStep == \E e \in RefreshEnvs : S' = RefreshLoopStep(S, e)

\* refresh_timers.get(func_name, 0)
LastRefresh(s, func) == Get(s.refresh_timers, func, 0)

\* positions of the dynamic items of the current menu that have a function
DynamicRows(s) ==
    {i \in DOMAIN GetCurrentMenuItems(s) :
        /\ GetCurrentMenuItems(s)[i].type \in {"dynamic", "dynamic_submenu"}
        /\ GetCurrentMenuItems(s)[i].function # ""}

\* C15: while the display is awake and no edit session is open, a tick of
\* the refresh loop recomputes a dynamic item of the current menu with a
\* numeric interval r exactly when now - lastRefresh(function) >= r: it
\* leaves the item's last computation alone before that, and computes the
\* item anew (lastRefresh becomes now) from then on.
C15_IntervalItemRecomputedOnlyWhenDue ==
    [][(~display_sleeping /\ ~display_sleeping' /\ ~edit_mode /\ RefreshTickStep)
          => \A i \in DynamicRows(S) :
                LET item == GetCurrentMenuItems(S)[i]
                IN  item.refresh # OnNavigate =>
                        IF now - LastRefresh(S, item.function) >= item.refresh
                        THEN LastRefresh(S', item.function) = now
                        ELSE /\ LastRefresh(S', item.function)
                                    = LastRefresh(S, item.function)
                             /\ dynamic_values'[item.function]
                                    = dynamic_values[item.function]]_vars

\* C16: a tick of the refresh loop never recomputes a dynamic item whose
\* refresh policy is on_navigate: the item's value and the time of its last
\* computation are what they were before the tick, whatever else is due.
C16_OnNavigateItemNotRecomputedByTick ==
    [][RefreshTickStep
          => \A i \in DynamicRows(S) :
                LET item == GetCurrentMenuItems(S)[i]
                IN  (item.refresh = OnNavigate
                        /\ item.function \in DOMAIN refresh_timers) =>
                        /\ LastRefresh(S', item.function)
                                = LastRefresh(S, item.function)
                        /\ dynamic_values'[item.function]
                                = dynamic_values[item.function]]_vars


-----------------------------------------------------------------------------
(* Claims about the expansion of sensor_summary *)

\* position of the sensor_summary item among the items of a menu
SummaryPos(items) == CHOOSE k \in DOMAIN items : items[k].type = "sensor_summary"

\* rank of a sensor name in lexicographic order
NameRank(name) == CHOOSE i \in DOMAIN SensorOrder : SensorOrder[i] = name

\* the text of the i-th row of a rendered menu (rows are padded by one)
RowText(menu, i) == menu.raw_items[i + 1].text.t

TickRedraws(s) ==
    /\ ~CheckSleep(s).display_sleeping
    /\ ~s.edit_mode
    /\ \E i \in DynamicRows(s) : ShouldRefreshItem(s, GetCurrentMenuItems(s)[i])

\* C18: a redraw triggered by a tick of the refresh loop leaves the scroll
\* offset as it was before the tick, except when the current menu contains a
\* sensor_summary item: then the offset is 0 after the tick.
C18_TickRedrawKeepsOrResetsScroll ==
    [][(TickRedraws(S) /\ RefreshTickStep)
          => IF HasSensorSummary(GetCurrentMenuItems(S))
             THEN scroll_index' = 0
             ELSE scroll_index' = scroll_index]_vars


-----------------------------------------------------------------------------
(* Claims about failures of the collaborators *)

\* C19: a dynamic-value lookup never hands an exception to the render: in
\* every re-render of the current menu, the value of each dynamic item is a
\* string, "Unknown" when the registry has no function of that name and
\* "Error" when the function raises, that value is in the row of the item,
\* and the re-render ends by presenting the frame of the rebuilt menu.
C19_LookupDegradesToSentinel ==
    \A preserve_position \in BOOLEAN, e \in RefreshEnvs :
        LET items == GetCurrentMenuItems(S)
            t == RefreshCurrentMenu(S, preserve_position, e)
        IN  ~display_sleeping =>
                /\ t.shown.kind = "menu"
                /\ t.shown = GetFrame(t.current_menu, t.scroll_index)
                /\ \A i \in DynamicRows(S) :
                      LET func == items[i].function
                          value == t.dynamic_values[func]
                      IN  /\ value # Raises
                          /\ func \notin DOMAIN e.dyn => value = "Unknown"
                          /\ (func \in DOMAIN e.dyn /\ e.dyn[func] = Raises)
                                => value = "Error"
                          /\ func \in DOMAIN e.dyn /\ e.dyn[func] # Raises
                                => value = e.dyn[func]
                          /\ \E r \in DOMAIN t.current_menu.raw_items :
                                t.current_menu.raw_items[r].text
                                    = Text(items[i].text, value, FALSE)

\* a tick recomputed an item whose function raised, next to an item bound
\* to an unregistered name, and the menu is on the display
C19_Witness ==
    /\ ~display_sleeping
    /\ "get_ip" \in DOMAIN dynamic_values
    /\ dynamic_values["get_ip"] = "Unknown"
    /\ dynamic_values["get_wifi_ssid"] = "Error"
    /\ refresh_timers["get_wifi_ssid"] > StartTime
    /\ shown = GetFrame(current_menu, scroll_index)
    /\ shown.line2.text = Text("SSID: {ssid}", "Error", FALSE)


\* the number of items button_pressed finds when it expands the current menu
ExpandedCount(s) == Len(ExpandItems(GetCurrentMenuItems(s), s.api_sensors))

\* the selected index is not below the expanded item count
StaleSelection(s) == GetSelectedItemIndex(s) >= ExpandedCount(s)

\* C20: a button press, with the menu on the display and no edit session
\* open, whose selected index is not below the number of items the current
\* menu expands to activates nothing: the navigation stack, the current
\* menu, the scroll offset, the edit session, the settings and what the
\* display shows are unchanged.
C20_StalePressIsNoOp ==
    [][(Browsing(S) /\ StaleSelection(S) /\ PressStep)
          => UNCHANGED <<menu_stack, current_menu_name, current_menu,
                         scroll_index, cursor_position, shown, settings,
                         edit_mode, edit_config, edit_value, edit_value_float,
                         editing_sensor, scanning_aps>>]_vars

\* the sensor list shrank after the menu was rendered, and a press with the
\* stale selection has taken note of the new list without rendering it
C20_Witness ==
    /\ Browsing(S)
    /\ StaleSelection(S)
    /\ HasSensorSummary(GetCurrentMenuItems(S))
    /\ RealCount(current_menu) > ExpandedCount(S)
    /\ last_sensor_list = api_sensors


-----------------------------------------------------------------------------
(* Claims about formatting *)

\* the items of the menu definition, of every menu
ConfigItems == UNION {Range(config[m]) : m \in DOMAIN config}

\* C21: formatting an item before and after a step that leaves the cache of
\* dynamic values, the settings and the edit session unchanged gives the
\* same text, right text and submenu marker, for every item of the menu
\* definition and whatever the collaborators return.
C21_FormatIsIdempotent ==
    [][UNCHANGED <<dynamic_values, settings, edit_mode, edit_config,
                   edit_value, edit_value_float>>
          => \A item \in ConfigItems :
                \A e1, e2 \in RenderEnvs :
                    FormatMenuText(S', item, e2) = FormatMenuText(S, item, e1)]_vars


\* the items a press opens an edit session on
EditTypes == {"editable", "brightness_bar", "hue_bar", "threshold_bar"}

\* the persisted value an item stands for, as text
PersistedText(s, item) ==
    IF item.type = "hue_bar" THEN ToString(GetAlertHue(s, item.alert_type))
    ELSE IF item.type = "threshold_bar"
    THEN ToString(Get(s.sensor_limits, item.sensor, 0))
    ELSE IF FuncKind(item.function) = "led_brightness"
    THEN ToString(GetLedBrightness(s))
    ELSE ToString(GetDisplayBrightness(s))

\* C22 as stated: an editable or bar-typed item is rendered with the
\* session's value in brackets exactly when an edit session is open whose
\* target has the item's function name, and with the persisted value,
\* unbracketed, in every other state.
C22_EditItemsShowValue ==
    \A item \in ConfigItems : \A e \in RenderEnvs :
        item.type \in EditTypes =>
            LET t == FormatText(S, item, e)
            IN  IF edit_mode /\ edit_config.function = item.function
                THEN t.b /\ t.v = ToString(edit_value)
                ELSE ~t.b /\ t.v = PersistedText(S, item)

\* C22, amended: an editable item whose text names the display or LED
\* brightness is rendered with the session's value in brackets exactly when
\* an edit session is open whose target has the item's function name, and
\* with the persisted value of the setting its text names, unbracketed, in
\* every other state; a bar-typed item is rendered as its label alone, with
\* no value, in every state.
C22_EditableBracketedBarsLabelOnly ==
    \A item \in ConfigItems : \A e \in RenderEnvs :
        LET t == FormatText(S, item, e)
        IN  /\ (item.type = "editable"
                  /\ Token(item.text) \in {"display_brightness", "led_brightness"})
                => IF edit_mode /\ edit_config.function = item.function
                   THEN t.b /\ t.v = ToString(edit_value)
                   ELSE /\ ~t.b
                        /\ t.v = IF Token(item.text) = "led_brightness"
                                 THEN ToString(GetLedBrightness(S))
                                 ELSE ToString(GetDisplayBrightness(S))
            /\ item.type \in {"brightness_bar", "hue_bar", "threshold_bar"}
                => t = Text(item.text, "", FALSE)

\* a session on the LED item was rotated away from the persisted value and
\* the menu on the display carries the bracketed value next to bar items
C22_Witness ==
    /\ edit_mode
    /\ edit_config.type = "editable"
    /\ edit_value # GetLedBrightness(S)
    /\ \E r \in DOMAIN current_menu.raw_items :
          current_menu.raw_items[r].text
              = Text("LED: {led_brightness}", ToString(edit_value), TRUE)
    /\ \E r \in DOMAIN current_menu.raw_items :
          current_menu.raw_items[r].text = Text("Brightness", "", FALSE)


-----------------------------------------------------------------------------
(* CommitSpec: edit sessions that are committed while the settings file    *)
(* can or cannot be written and update_limit succeeds or fails             *)

CommitInit ==
    \E c \in EditConfigs, v \in LimitValues :
        Is(Started(c, DefaultSettings, TRUE, <<"kitchen">>,
                   [DefaultEnv EXCEPT !.limit = v]))

\* the file system turns read-only, or writable again
DiskChange ==
    \E writable \in BOOLEAN :
        /\ writable # disk_ok
        /\ Apply([S EXCEPT !.disk_ok = writable])

CommitNext == Rotate \/ Press \/ DiskChange

CommitSpec == CommitInit /\ [][CommitNext]_vars

\* the step taken is the button_pressed() that commits the open session,
\* with the collaborators answering as in e
CommitStep(e) ==
    /\ edit_mode
    /\ ~display_sleeping
    /\ ~boot_screen_active
    /\ S' = ButtonPressed(S, e)

\* the open session commits to the settings store
SettingsSession(s) ==
    /\ s.edit_mode
    /\ s.edit_config.function \in
          {"set_display_brightness", "set_led_brightness",
           "set_alert_hue_normal", "set_alert_hue_warn", "set_alert_hue_alert"}

\* the setting the session is about holds, in memory, the session's value
InMemoryCommitted(s, t) ==
    IF s.edit_config.type = "hue_bar"
    THEN GetAlertHue(t, s.edit_config.alert_type) = s.edit_value_float
    ELSE IF s.edit_config.function = "set_led_brightness"
    THEN GetLedBrightness(t) = Max(0, Min(255, s.edit_value))
    ELSE GetDisplayBrightness(t) = Max(0, Min(255, s.edit_value))

\* C23 as stated: when the write that persists a committed value fails, the
\* edit session still closes and the value in memory is the committed one,
\* for the settings store and for the sensor limit alike.
C23_FailedWriteKeepsCommittedValue ==
    [][\A e \in PressEnvs :
          CommitStep(e) =>
             /\ ~edit_mode'
             /\ (SettingsSession(S) /\ ~disk_ok) => InMemoryCommitted(S, S')
             /\ (edit_config.type = "threshold_bar" /\ editing_sensor # ""
                    /\ ~e.update_ok)
                   => Get(sensor_limits', editing_sensor, -1) = edit_value]_vars

\* C23, amended: when the settings file cannot be written, the commit still
\* closes the session and the setting holds the committed value in memory
\* while the file keeps its old contents; when the update of a sensor limit
\* fails, the commit still closes the session and the cached limits are
\* left as they were.
C23_FailedSettingsWriteKeepsValue ==
    [][\A e \in PressEnvs :
          CommitStep(e) =>
             /\ ~edit_mode'
             /\ (SettingsSession(S) /\ ~disk_ok)
                   => /\ InMemoryCommitted(S, S')
                      /\ settings_file' = settings_file
             /\ (edit_config.type = "threshold_bar" /\ editing_sensor # ""
                    /\ ~e.update_ok)
                   => /\ sensor_limits' = sensor_limits
                      /\ editing_sensor' = ""]_vars

\* a session was committed while the file could not be written: the value
\* in memory is not the value in the file
C23_Witness ==
    /\ ~edit_mode
    /\ ~disk_ok
    /\ settings # settings_file


-----------------------------------------------------------------------------
(* ThreadSpec: the callbacks of the encoder, the refresh thread, the scan  *)
(* worker and the boot-check thread, interleaved where the code lets them: *)
(* refresh_lock is held only inside _refresh_current_menu and the cursor   *)
(* moves, so a thread can be preempted before it takes the lock, between   *)
(* the sleep test of _refresh_current_menu and the drawing, and between    *)
(* the tests and the assignments of _check_sleep and _refresh_loop         *)

ThreadConfig ==
    [main |->
        << DynamicItem("SSID: {ssid}", "get_wifi_ssid", 5),
           SubmenuItem("Network", "network"),
           EditItem("brightness_bar", "Brightness", "set_display_brightness", 0, 255) >>,
     network |->
        << SubmenuItem("Scan", "scan_aps"),
           BackItem("Back") >>]

Threads == {"input", "tick", "scan", "boot"}


ThreadInit ==
    \E a \in BOOLEAN :
        Is(Started(ThreadConfig, DefaultSettings, a, <<"kitchen">>, DefaultEnv))

\* a step of thread th that leads to state t, with th at position at
Step(th, at, t) ==
    Apply([t EXCEPT !.pc = [@ EXCEPT ![th] = at], !.actor = th])

\* button_pressed up to the call of _refresh_current_menu or of the bar
ThreadPress ==
    /\ pc.input = "idle"
    /\ LET s1 == [S EXCEPT !.last_activity = now]
           item == SelectedItem(s1)
       IN  IF display_sleeping
           THEN Step("input", "render", [s1 EXCEPT !.display_sleeping = FALSE])
           ELSE IF boot_screen_active THEN Step("input", "idle", s1)
           ELSE IF edit_mode
           THEN Step("input", "render",
                     [SaveEditValue(s1, DefaultEnv) EXCEPT !.edit_mode = FALSE])
           ELSE IF item.type = "back" /\ Len(menu_stack) > 1
           THEN LET stack == SubSeq(menu_stack, 1, Len(menu_stack) - 1)
                IN  Step("input", "render",
                         [s1 EXCEPT !.menu_stack = stack,
                                    !.current_menu_name = stack[Len(stack)],
                                    !.scroll_index = 0])
           ELSE IF item.type = "submenu" /\ item.submenu # ""
           THEN /\ item.submenu = "scan_aps" => scan_workers < MaxScanWorkers
                /\ Step("input",
                        IF item.submenu = "scan_aps" THEN "scan_render" ELSE "render",
                        [s1 EXCEPT !.menu_stack = Append(@, item.submenu),
                                   !.current_menu_name = item.submenu,
                                   !.scroll_index = 0,
                                   !.scanning_aps =
                                       IF item.submenu = "scan_aps" THEN TRUE ELSE @,
                                   !.scanned_aps =
                                       IF item.submenu = "scan_aps" THEN <<>> ELSE @])
           ELSE IF item.type = "brightness_bar"
           THEN Step("input", "bar",
                     [s1 EXCEPT !.edit_mode = TRUE, !.edit_config = item,
                                !.edit_value = GetDisplayBrightness(s1)])
           ELSE Step("input", "idle", s1)

\* _enter_brightness_bar_mode: _render_brightness_bar (takes no lock)
ThreadBar ==
    /\ pc.input = "bar"
    /\ Step("input", "idle", RenderBrightnessBar(S))

\* encoder_rotated on an awake display: the cursor moves under the lock,
\* a session is adjusted and drawn without it
ThreadRotate ==
    /\ pc.input = "idle"
    /\ ~display_sleeping
    /\ lock = "none"
    /\ \E delta \in Deltas :
          \E t \in {EncoderRotated(S, delta, DefaultEnv)} :
              /\ EditBounded(t)
              /\ Step("input", "idle", t)

\* the thread is about to call _refresh_current_menu
WantsRender(th) ==
    \/ th = "input" /\ pc.input \in {"render", "scan_render"}
    \/ th \in {"tick", "scan", "boot"} /\ pc[th] = "redraw"

\* where the thread goes on after _refresh_current_menu returned
AfterRender(th) == "idle"

\* the thread went on after _refresh_current_menu: _navigate_to starts the
\* scan worker
Returned(th, t) ==
    IF th = "input" /\ pc.input = "scan_render"
    THEN [t EXCEPT !.scan_workers = @ + 1, !.scan_latest = TRUE]
    ELSE t

\* _refresh_current_menu: take the lock (the boot check takes it first and
\* resets the scroll), return if the display sleeps
ThreadAcquire(th) ==
    /\ WantsRender(th)
    /\ lock = "none"
    /\ LET s1 == IF th = "boot" THEN [S EXCEPT !.scroll_index = 0] ELSE S
       IN  IF display_sleeping
           THEN Step(th, AfterRender(th), Returned(th, s1))
           ELSE Step(th, pc[th], [s1 EXCEPT !.lock = th])

\* _refresh_current_menu after its sleep test, to the release of the lock
ThreadRender(th) ==
    /\ lock = th
    /\ LET drawn == RefreshCurrentMenu([S EXCEPT !.display_sleeping = FALSE],
                                       th \in {"tick", "scan"}, DefaultEnv)
       IN  Step(th, AfterRender(th),
                Returned(th, [drawn EXCEPT !.display_sleeping = display_sleeping,
                                           !.lock = "none"]))

\* _check_sleep: the test of the elapsed time
ThreadTickExpire ==
    /\ pc.tick = "idle"
    /\ Step("tick",
            IF now - last_activity > INACTIVITY_TIMEOUT THEN "expired" ELSE "poll",
            S)

\* _check_sleep: the test of the flag, the flag and display.clear()
ThreadTickSleep ==
    /\ pc.tick = "expired"
    /\ Step("tick", "poll",
            IF ~display_sleeping
            THEN [S EXCEPT !.display_sleeping = TRUE, !.shown = Cleared]
            ELSE S)

\* _refresh_loop: the tests of the flags and the items that are due
ThreadTickPoll ==
    /\ pc.tick = "poll"
    /\ IF ~display_sleeping /\ ~edit_mode
       THEN LET due == {GetCurrentMenuItems(S)[i].function : i \in
                           {j \in DynamicRows(S) :
                               ShouldRefreshItem(S, GetCurrentMenuItems(S)[j])}}
            IN  IF due # {}
                THEN Step("tick", "redraw", RecomputeDynamic(S, due, DefaultEnv))
                ELSE Step("tick", "idle", S)
       ELSE Step("tick", "idle", S)

\* _do_ap_scan without the test of the current menu
ThreadScanDoneUnchecked ==
    /\ scan_workers > 0
    /\ pc.scan = "idle"
    /\ \E r \in ScanResults \ {<<>>}, latest \in BOOLEAN :
          /\ CanFinish(S, latest)
          /\ Step("scan", "redraw",
                  [S EXCEPT !.scanned_aps = r, !.scanning_aps = FALSE,
                            !.scan_workers = @ - 1,
                            !.scan_latest = IF latest THEN FALSE ELSE @])

\* _do_ap_scan up to the call of _refresh_current_menu
ThreadScanDone ==
    /\ scan_workers > 0
    /\ pc.scan = "idle"
    /\ \E r \in ScanResults \ {<<>>}, latest \in BOOLEAN :
          /\ CanFinish(S, latest)
          /\ Step("scan",
                  IF current_menu_name = "scan_aps" THEN "redraw" ELSE "idle",
                  [S EXCEPT !.scanned_aps = r, !.scanning_aps = FALSE,
                            !.scan_workers = @ - 1,
                            !.scan_latest = IF latest THEN FALSE ELSE @])

\* _boot_check_loop up to the lock
ThreadBootCheck ==
    /\ boot_screen_active
    /\ api_available
    /\ pc.boot = "idle"
    /\ Step("boot", "redraw", [S EXCEPT !.boot_screen_active = FALSE])

\* the clock advances
ThreadClock ==
    \E d \in TimeSteps :
        /\ now + d <= MaxTime
        /\ Apply([S EXCEPT !.now = @ + d, !.actor = "none"])

\* the limit-service comes up
ThreadApiUp ==
    /\ ~api_available
    /\ Apply([S EXCEPT !.api_available = TRUE, !.actor = "none"])

ThreadNext ==
    \/ ThreadPress
    \/ ThreadBar
    \/ ThreadRotate
    \/ \E th \in Threads : ThreadAcquire(th)
    \/ \E th \in Threads : ThreadRender(th)
    \/ ThreadTickExpire
    \/ ThreadTickSleep
    \/ ThreadTickPoll
    \/ ThreadScanDone
    \/ ThreadBootCheck
    \/ ThreadClock
    \/ ThreadApiUp

ThreadSpec == ThreadInit /\ [][ThreadNext]_vars


-----------------------------------------------------------------------------
(* Claims about the interleavings (ThreadSpec)                             *)

\* the input callback changed navigation or edit state and has not drawn it
InputRenderPending == pc.input \in {"render", "scan_render", "bar"}

\* the refresh thread recomputed values and has not finished drawing them
TickRenderPending == pc.tick = "redraw"

\* C24: an input event's state change together with its render, and a tick's
\* refresh together with its render, are one critical section: no step of
\* the refresh thread, the scan worker or the boot check runs between an
\* input event's change and its render, and no input step runs between a
\* tick's recomputation and the end of its render
C24_TransitionAndRenderAtomic ==
    [][ /\ InputRenderPending => actor' \notin {"tick", "scan", "boot"}
        /\ TickRenderPending => actor' # "input" ]_vars


\* the collaborator calls _refresh_current_menu makes between taking and
\* releasing the lock: the sensor list and the limits for a sensor_summary
\* item, and the bound function of every dynamic item of the menu
RenderCollaboratorCalls(s) ==
    LET items == GetCurrentMenuItems(s)
    IN  (IF HasSensorSummary(items) THEN {"get_sensors", "get_limits"} ELSE {})
        \cup DynamicFunctionsOf(ExpandItems(items, s.api_sensors))

\* C25: no collaborator call is in progress while the render lock is held:
\* a render that holds the lock has no sensor, limits or dynamic-value call
\* to make
C25_NoCollaboratorCallUnderLock ==
    lock # "none" => RenderCollaboratorCalls(S) = {}


\* C26: while an edit session is open the refresh thread neither recomputes
\* a dynamic value nor presents a menu frame (it may blank the display on
\* expiry of the inactivity timeout), in any interleaving with the input
\* callbacks
C26_SchedulerSilentDuringSession ==
    [][ (edit_mode /\ actor' = "tick") =>
            /\ shown' \in {shown, Cleared}
            /\ dynamic_values' = dynamic_values
            /\ refresh_timers' = refresh_timers ]_vars


\* C27: the display enters Sleeping only on expiry: in the step that sets
\* display_sleeping, the time since the most recent input event exceeds the
\* inactivity timeout, in every interleaving of the input callbacks with the
\* periodic check
C27_SleepOnlyOnExpiry ==
    [][ (~display_sleeping /\ display_sleeping') =>
            now' - last_activity' > INACTIVITY_TIMEOUT ]_vars


\* button_pressed entered the scan menu and has not called the render yet
ScanEntry == actor' = "input" /\ pc.input = "idle" /\ pc'.input = "scan_render"

\* a scan worker is started
WorkerStart == scan_workers' > scan_workers

\* a scan worker stored its result and tested the current menu
ScanCompletion == actor' = "scan" /\ pc.scan = "idle"

C29_NothingPresentedWhileSleeping ==
    [][ (display_sleeping /\ actor' \in {"tick", "scan", "boot"}) =>
            /\ shown' = shown
            /\ dynamic_values' = dynamic_values ]_vars


-----------------------------------------------------------------------------
(* LedSpec: edit sessions with status updates pushed to the LED server     *)

LedBarConfig ==
    [main |-> << EditItem("brightness_bar", "LED Brightness",
                          "set_led_brightness", 0, 255) >>]

\* the statuses LEDIPCServer._handle_request accepts for push_status
Statuses == {"normal", "warn", "alert", "none"}

\* LEDIPCServer._push_status: the status joins the history and is rendered
\* to the strip unless updates are paused
PushStatus(s, status) ==
    [s EXCEPT !.led = [@ EXCEPT !.status = status,
                                !.show = IF s.led.pause_updates THEN @
                                         ELSE "status"]]

LedInit ==
    \E c \in {LedBarConfig, HueConfig, LedConfig} :
        Is(Started(c, DefaultSettings, TRUE, <<"kitchen">>, DefaultEnv))

\* a client pushes a status to the LED server
LedPush ==
    \E status \in Statuses :
        \E t \in {PushStatus(S, status)} : Apply(t)

LedNext == Rotate \/ Press \/ LedPush

LedSpec == LedInit /\ [][LedNext]_vars

\* the open session previews on the LEDs: an LED-brightness bar or a hue bar
LedSession(s) ==
    /\ s.edit_mode
    /\ \/ s.edit_config.type = "hue_bar"
       \/ /\ s.edit_config.type = "brightness_bar"
          /\ FuncKind(s.edit_config.function) = "led_brightness"

\* C30: from the entry of an LED-brightness or hue session until its commit
\* no pushed status update is rendered to the LEDs: the strip keeps showing
\* the preview
C30_StatusSuppressedDuringLedSession ==
    [][ (LedSession(S) /\ edit_mode') => led'.show = led.show ]_vars


\* C31: after a commit no preview remains, whatever the session type: the
\* LEDs show neither the preview colour nor the rainbow pattern, status
\* updates are not paused, the session is closed and the display shows the
\* owning menu
C31_CommitRevertsPreview ==
    [][ (\E e \in PressEnvs : CommitStep(e)) =>
            /\ led'.show \notin {"hue", "rainbow"}
            /\ ~led'.pause_updates
            /\ ~showing_rainbow'
            /\ ~edit_mode'
            /\ shown' = GetFrame(current_menu', scroll_index') ]_vars


\* the pixel column a bar editor draws its fill or its cursor at
BarPixel(frame) ==
    IF frame.kind = "brightness_bar" THEN frame.fill_width ELSE frame.cursor_pos

BarKinds == {"brightness_bar", "threshold_bar", "hue_bar"}

\* C32: in a bar session every detent that is not clamped at a bound moves
\* the rendered fill or cursor by exactly one pixel
C32_DetentMovesBarOnePixel ==
    [][ \A delta \in EditDeltas :
           ( /\ SessionRotationStep(delta)
             /\ edit_config.type \in BarKinds
             /\ shown.kind = edit_config.type
             /\ Unclamped(S, delta) ) =>
               \/ BarPixel(shown') = BarPixel(shown) + 1
               \/ BarPixel(shown') = BarPixel(shown) - 1 ]_vars


\* the frames Menu.__init__ pre-rendered for the menu
CachedFrames(menu) == {menu.frame_cache[i] : i \in DOMAIN menu.frame_cache}

\* C33: while the menu list is on screen (display awake, no boot screen, no
\* edit session) a rotation only indexes into the pre-rendered frames: the
\* Menu and its frame cache stay as they are, no dynamic value, timer or
\* sensor data is fetched, and what is shown afterwards is the frame shown
\* before or a frame of the cache
C33_RotationOnlyIndexesFrames ==
    [][ \A delta \in Deltas :
           (Browsing(S) /\ RotationStep(delta)) =>
               /\ current_menu' = current_menu
               /\ dynamic_values' = dynamic_values
               /\ refresh_timers' = refresh_timers
               /\ sensor_limits' = sensor_limits
               /\ last_sensor_list' = last_sensor_list
               /\ shown' = shown \/ shown' \in CachedFrames(current_menu) ]_vars

\* the list was scrolled by a rotation: another cached frame is on screen
C33_Witness ==
    /\ Browsing(S)
    /\ scroll_index > 0
    /\ scroll_index \in DOMAIN current_menu.frame_cache
    /\ shown = current_menu.frame_cache[scroll_index]
    /\ shown # current_menu.frame_cache[0]


\* the timeout expired during an open session
SleepDueInSession ==
    /\ edit_mode
    /\ ~display_sleeping
    /\ now - last_activity > INACTIVITY_TIMEOUT

\* the button is pressed while the display sleeps with a session open
WakePressInSession ==
    /\ edit_mode
    /\ display_sleeping
    /\ PressStep

\* C34: an open edit session does not hold back the sleep timer: on expiry
\* an iteration of the refresh thread puts the display to sleep with the
\* session still open;
\* the press that wakes it leaves the session open with the same target and
\* value, and stores nothing
C34_SessionSleepsAndWakePressKeepsIt ==
    [][ /\ SleepDueInSession =>
              \A e \in RenderEnvs :
                  LET t == RefreshLoopStep(S, e)
                  IN  /\ t.display_sleeping /\ t.shown = Cleared
                      /\ t.edit_mode /\ t.edit_config = edit_config
                      /\ t.edit_value = edit_value
                      /\ t.edit_value_float = edit_value_float
        /\ WakePressInSession =>
              /\ ~display_sleeping'
              /\ edit_mode' /\ edit_config' = edit_config
              /\ edit_value' = edit_value
              /\ edit_value_float' = edit_value_float
              /\ editing_sensor' = editing_sensor
              /\ settings' = settings
              /\ settings_file' = settings_file
              /\ contrast' = contrast ]_vars

\* a session that slept was woken by a press and is still open, its value
\* differing from the stored one
C34_Witness ==
    /\ edit_mode
    /\ ~display_sleeping
    /\ now > StartTime
    /\ last_activity = now
    /\ edit_config.type = "brightness_bar"
    /\ edit_value # GetDisplayBrightness(S)
    /\ shown.kind = "menu"


\* C35: a wake event restores the view shown before sleep: the navigation
\* stack and the scroll offset after the press that wakes the display equal
\* those the display went to sleep with, and with a bar session open the
\* frame presented is the session's editor
C35_WakeRestoresView ==
    [][ (display_sleeping /\ PressStep) =>
            /\ ~display_sleeping'
            /\ menu_stack' = menu_stack
            /\ scroll_index' = scroll_index
            /\ (edit_mode /\ edit_config.type \in BarKinds) =>
                   shown'.kind = edit_config.type ]_vars


\* a press on an awake display that opens a session or commits the open one
SessionPressStep ==
    /\ ~display_sleeping
    /\ ~boot_screen_active
    /\ PressStep
    /\ edit_mode \/ edit_mode'

\* C36: opening a session, rotating in it and committing it leave the
\* navigation stack and the scroll offset as they were when the session was
\* opened: none of the three steps changes them
C36_SessionKeepsHighlight ==
    [][ (SessionPressStep \/ \E delta \in Deltas : SessionRotationStep(delta)) =>
            /\ menu_stack' = menu_stack
            /\ scroll_index' = scroll_index ]_vars


\* a display-brightness bar session is open
DisplayBrightnessSession(s) ==
    /\ s.edit_mode
    /\ s.edit_config.type = "brightness_bar"
    /\ FuncKind(s.edit_config.function) = "display_brightness"

\* C37: the contrast applied for a brightness value v is the same function
\* of v on every path: a commit leaves the contrast at what the session last
\* previewed, and outside a session (after startup, after a commit) the
\* contrast is the previewed contrast 5 + v/255 * 250 of the stored value
C37_OneContrastForBrightness ==
    [][ /\ ( /\ DisplayBrightnessSession(S)
             /\ contrast = HardwareContrast(edit_value)
             /\ \E e \in PressEnvs : CommitStep(e) ) =>
               contrast' = contrast
        /\ ~edit_mode =>
               contrast = HardwareContrast(GetDisplayBrightness(S)) ]_vars


-----------------------------------------------------------------------------
(* ScanSpec: the scan menu entered again while earlier scans are running   *)

MaxOverlap == 2        \* ScanSpec: scan threads in flight at the same time

ScanInit ==
    Is(Started(NetworkConfig, DefaultSettings, TRUE, <<"kitchen">>, DefaultEnv))

ScanPress ==
    \E e \in PressEnvs :
        \E t \in {ButtonPressed(S, e)} :
            /\ t.scan_workers <= MaxOverlap
            /\ Apply(t)

ScanNext == Rotate \/ ScanPress \/ ScanDone

ScanSpec == ScanInit /\ [][ScanNext]_vars

\* C38: the completion of a scan thread started by an earlier visit does not
\* touch the newer visit: on the scan menu, while the thread started by the
\* latest entry is still in flight, the scanning flag is set and no result
\* is listed
C38_EarlierWorkerLeavesNewerVisit ==
    (current_menu_name = "scan_aps" /\ scan_latest) =>
        /\ scanning_aps
        /\ scanned_aps = <<>>


\* C39: while the boot screen is active no step presents a menu frame (the
\* display keeps the boot screen or is blank) and no input event changes the
\* navigation stack, the scroll offset or the edit session; the menu is
\* first drawn by the step of the boot check that ends the boot screen
C39_BootScreenHoldsMenuBack ==
    [][ boot_screen_active =>
          /\ boot_screen_active' => shown' \in {BootScreen, Cleared}
          /\ (PressStep \/ \E delta \in Deltas : RotationStep(delta)) =>
                UNCHANGED <<menu_stack, current_menu_name, scroll_index,
                            cursor_position, edit_mode, edit_config,
                            edit_value, edit_value_float>>
          /\ ~boot_screen_active' =>
                \E e \in RenderEnvs : S' = BootCheckStep(S, e) ]_vars


(***************************************************************************)
(* ScanFairSpec: the scan threads under fair scheduling.  _scan_aps is     *)
(* computed from what nmcli produced: a non-zero return code, the 5 s      *)
(* timeout (an exception) or a list of lines.                              *)
(***************************************************************************)
ScanRowLimit == 10

\* a line of nmcli output, as line.split(":", 1) sees it
ScanLine(ssid, signal) ==
    [parts |-> 2, ssid |-> ssid, numeric |-> TRUE, signal |-> signal]

ParseLine(l) ==
    << IF l.ssid = "" THEN "<hidden>" ELSE l.ssid,
       IF l.numeric THEN l.signal ELSE 0 >>

ParseLines(lines) ==
    LET kept == SelectSeq(lines, LAMBDA l : l.parts = 2)
    IN  [i \in 1 .. Len(kept) |-> ParseLine(kept[i])]

\* entries.sort(key=signal, reverse=True): stable, strongest first; Rank is
\* the place the sort gives to entry i
Rank(entries, i) ==
    1 + Cardinality({j \in 1 .. Len(entries) :
                        \/ entries[j][2] > entries[i][2]
                        \/ entries[j][2] = entries[i][2] /\ j < i})

SortBySignal(entries) ==
    [k \in 1 .. Len(entries) |->
        entries[CHOOSE i \in 1 .. Len(entries) : Rank(entries, i) = k]]

ScanApsUntruncated(out) ==
    IF out.status # "ok" THEN <<>>
    ELSE SortBySignal(ParseLines(out.lines))

ScanAps(out) ==
    IF out.status # "ok" THEN <<>>
    ELSE LET entries == SortBySignal(ParseLines(out.lines))
         IN  SubSeq(entries, 1, Min(Len(entries), ScanRowLimit))

MixedLines ==
    << ScanLine("cafe", 30),
       [parts |-> 0, ssid |-> "", numeric |-> FALSE, signal |-> 0],
       ScanLine("", 55),
       [parts |-> 1, ssid |-> "garbled", numeric |-> FALSE, signal |-> 0],
       [parts |-> 2, ssid |-> "odd", numeric |-> FALSE, signal |-> 0],
       ScanLine("home", 80) >>

ManyNames ==
    << "ap01", "ap02", "ap03", "ap04", "ap05", "ap06",
       "ap07", "ap08", "ap09", "ap10", "ap11", "ap12" >>

ManyLines == [i \in 1 .. Len(ManyNames) |-> ScanLine(ManyNames[i], 8 * i)]

ScanOutcomes ==
    { [status |-> "failed", lines |-> <<>>],
      [status |-> "timeout", lines |-> <<>>],
      [status |-> "ok", lines |-> <<>>],
      [status |-> "ok", lines |-> MixedLines],
      [status |-> "ok", lines |-> ManyLines] }

\* one scan thread runs _do_ap_scan to its end
ScanFinish(latest) ==
    /\ scan_workers > 0
    /\ CanFinish(S, latest)
    /\ \E out \in ScanOutcomes, x \in RenderEnvs :
          \E t \in {DoApScan(S, [x EXCEPT !.scan = ScanAps(out),
                                          !.latest = latest])} : Apply(t)

ScanFairNext ==
    \/ Rotate
    \/ ScanPress
    \/ ScanFinish(TRUE)
    \/ ScanFinish(FALSE)
    \/ AdvanceTime
    \/ RefreshTick

\* the steps of ScanFairNext that end a scan thread, as the variables show
\* them: the thread of the latest entry, a thread of an earlier entry
LatestEnds == scan_latest /\ scan_latest' = FALSE

EarlierEnds ==
    /\ scan_workers > (IF scan_latest THEN 1 ELSE 0)
    /\ scan_workers' = scan_workers - 1
    /\ scan_latest' = scan_latest

\* a started daemon thread keeps running: subprocess.run returns or raises
\* within its 5 s timeout and nothing else in _do_ap_scan waits on input
ScanFairSpec ==
    /\ ScanInit
    /\ [][ScanFairNext]_vars
    /\ WF_scan_latest(LatestEnds)
    /\ WF_<<scan_workers, scan_latest>>(EarlierEnds)

\* C40: under fair scheduling the scanning flag set by entering the scan
\* menu is eventually cleared and the thread of the latest entry ends,
\* whatever nmcli did; the completion stores at most 10 results, and when
\* the scan menu is current and the display awake at the completion the
\* placeholder is replaced by those rows followed by the back row
C40_ScanTerminatesAndListsResults ==
    /\ scanning_aps ~> ~scanning_aps
    /\ scan_latest ~> ~scan_latest
    /\ [][ scan_workers' = scan_workers - 1 =>
             /\ ~scanning_aps'
             /\ Len(scanned_aps') <= ScanRowLimit
             /\ (current_menu_name = "scan_aps" /\ ~display_sleeping) =>
                   /\ DOMAIN current_menu'.frame_cache
                          = 0 .. Len(scanned_aps')
                   /\ Cardinality(DOMAIN current_menu'.frame_cache)
                          <= ScanRowLimit + 1
                   /\ \A i \in 1 .. Len(scanned_aps') :
                          RowText(current_menu', i) = scanned_aps'[i][1]
                   /\ RowText(current_menu', Len(scanned_aps') + 1) = "Back"
                   /\ shown' = GetFrame(current_menu', scroll_index') ]_vars

\* a scan that found twelve networks has completed on the scan menu with
\* the display awake: ten rows and the back row are listed
C40_Witness ==
    /\ current_menu_name = "scan_aps" /\ ~display_sleeping
    /\ ~scanning_aps /\ scan_workers = 0
    /\ Len(scanned_aps) = ScanRowLimit
    /\ DOMAIN current_menu.frame_cache = 0 .. ScanRowLimit
    /\ RowText(current_menu, ScanRowLimit + 1) = "Back"
    /\ shown = GetFrame(current_menu, scroll_index)

====
